---------------------------- MODULE Spec2Model ----------------------------
(***************************************************************************)
(* Model of the JSON viewer (src/unnamed/part_000, src/app/page.tsx):      *)
(* the pointer model, the FormViewer expand state, the search matcher and  *)
(* the Page's derived search result; JSON parse, format and minify; the    *)
(* fetch proxy; the document text with its share link, persisted slot and  *)
(* remote load; the collapsing of keys for the tree view.                  *)
(*                                                                         *)
(* Text is a sequence of one-character strings.  A JSON value is a record  *)
(*   [t, n, s, keys, items]                                                *)
(* with t in {"null","bool","num","str","arr","obj"}; n the number (or 0/1 *)
(* for a boolean), s the text of a string, keys the own keys of an object  *)
(* in the order the parser inserted them, items the elements of an array   *)
(* or the values of an object (items[i] belongs to keys[i]).               *)
(***************************************************************************)
EXTENDS Integers, Sequences, FiniteSets, Bags, TLC

VARIABLES raw, storage, mounted, load, autoFormat,
          parsed, viewMode, search, matches, toast, expanded, selected, last, call

\* the document text and what loads and keeps it
docVars == <<raw, storage, mounted, load, autoFormat>>

vars == <<docVars, parsed, viewMode, search, matches, toast, expanded, selected, last, call>>

---------------------------------------------------------------------------
(* Bounds of the model *)

\* longest path (number of segments) handed to pointerFromSegments directly
MaxPathLen == 2
\* most children of a generated container
MaxWidth == 2
\* largest `limit` handed to collectExpandablePointers / expandAll directly
MaxLimit == 3
\* largest `maxMatches` handed to findMatches directly
MaxCap == 3
\* the longest generated JSON text
MaxTextLen == 4

---------------------------------------------------------------------------
(* Text *)

UpperChars == <<"A","B","C","D","E","F","G","H","I","J","K","L","M",
                "N","O","P","Q","R","S","T","U","V","W","X","Y","Z">>
LowerChars == <<"a","b","c","d","e","f","g","h","i","j","k","l","m",
                "n","o","p","q","r","s","t","u","v","w","x","y","z">>
DigitChars == <<"0","1","2","3","4","5","6","7","8","9">>

Range(f) == {f[i] : i \in DOMAIN f}

\* U+2026, one character
Ellipsis == "<U+2026>"

\* n copies of the character c
Rep(c, n) == [i \in 1..n |-> c]

\* String.prototype.toLowerCase on one character (ASCII)
LowerChar(c) ==
  IF c \in Range(UpperChars)
    THEN LowerChars[CHOOSE i \in DOMAIN UpperChars : UpperChars[i] = c]
    ELSE c

\* String.prototype.toLowerCase
toLowerCase(s) == [i \in 1..Len(s) |-> LowerChar(s[i])]

\* the characters String.prototype.trim removes (those of the model's alphabet)
WhiteSpace == {" ", "\t", "\n", "\r", "\f"}

\* String.prototype.trim
trim(s) ==
  LET keep == {i \in 1..Len(s) : s[i] \notin WhiteSpace}
  IN IF keep = {} THEN <<>>
     ELSE LET lo == CHOOSE i \in keep : \A j \in keep : i <= j
              hi == CHOOSE i \in keep : \A j \in keep : j <= i
          IN SubSeq(s, lo, hi)

\* String.prototype.includes
includes(s, q) ==
  \E i \in 0..(Len(s) - Len(q)) : SubSeq(s, i + 1, i + Len(q)) = q

\* String.prototype.slice(0, n)
slice0(s, n) == SubSeq(s, 1, IF n < Len(s) THEN n ELSE Len(s))

RECURSIVE NatToStr(_)
\* String(n) for an integer n >= 0
NatToStr(n) ==
  IF n < 10 THEN <<DigitChars[n + 1]>>
  ELSE NatToStr(n \div 10) \o <<DigitChars[(n % 10) + 1]>>

\* String(n) for an integer
NumToStr(n) == IF n < 0 THEN <<"-">> \o NatToStr(0 - n) ELSE NatToStr(n)

\* the value of a decimal digit
DigitVal(c) == (CHOOSE i \in DOMAIN DigitChars : DigitChars[i] = c) - 1

\* a <= b for two texts of decimal digits without leading zeros
DecimalLeq(a, b) ==
  \/ Len(a) < Len(b)
  \/ /\ Len(a) = Len(b)
     /\ \/ a = b
        \/ \E i \in 1..Len(a) : /\ SubSeq(a, 1, i - 1) = SubSeq(b, 1, i - 1)
                                /\ DigitVal(a[i]) < DigitVal(b[i])

\* characters encodeURIComponent leaves alone
UnreservedMarks == {"-", "_", ".", "!", "~", "*", "'", "(", ")"}
Unreserved ==
  Range(UpperChars) \cup Range(LowerChars) \cup Range(DigitChars) \cup UnreservedMarks

\* the %XX escapes of the other printable ASCII characters (the grave accent,
\* %60, is left out of the alphabet)
EscapedChars ==
  <<" ", "\"", "#", "$", "%", "&", "+", ",", "/", ":", ";", "<", "=", ">",
    "?", "@", "[", "\\", "]", "^", "{", "|", "}">>
EscapedHex ==
  << <<"2","0">>, <<"2","2">>, <<"2","3">>, <<"2","4">>, <<"2","5">>, <<"2","6">>,
     <<"2","B">>, <<"2","C">>, <<"2","F">>, <<"3","A">>, <<"3","B">>, <<"3","C">>,
     <<"3","D">>, <<"3","E">>, <<"3","F">>, <<"4","0">>, <<"5","B">>, <<"5","C">>,
     <<"5","D">>, <<"5","E">>, <<"7","B">>, <<"7","C">>, <<"7","D">> >>

\* encodeURIComponent on one character: U+2026 is three UTF-8 bytes
EncodeChar(c) ==
  IF c \in Unreserved THEN <<c>>
  ELSE IF c = Ellipsis THEN <<"%","E","2","%","8","0","%","A","6">>
  ELSE <<"%">> \o EscapedHex[CHOOSE i \in DOMAIN EscapedChars : EscapedChars[i] = c]

RECURSIVE encodeURIComponent(_)
encodeURIComponent(s) ==
  IF s = <<>> THEN <<>>
  ELSE EncodeChar(Head(s)) \o encodeURIComponent(Tail(s))

---------------------------------------------------------------------------
(* JSON values *)

JNull == [t |-> "null", n |-> 0, s |-> <<>>, keys |-> <<>>, items |-> <<>>]
JBool(b) == [t |-> "bool", n |-> IF b THEN 1 ELSE 0, s |-> <<>>, keys |-> <<>>, items |-> <<>>]
JNum(x) == [t |-> "num", n |-> x, s |-> <<>>, keys |-> <<>>, items |-> <<>>]
JStr(x) == [t |-> "str", n |-> 0, s |-> x, keys |-> <<>>, items |-> <<>>]
JArr(xs) == [t |-> "arr", n |-> 0, s |-> <<>>, keys |-> <<>>, items |-> xs]
JObj(ks, xs) == [t |-> "obj", n |-> 0, s |-> <<>>, keys |-> ks, items |-> xs]

\* Array.isArray
isArray(v) == v.t = "arr"

\* String(v) of a leaf that is not null
LeafText(v) ==
  IF v.t = "str" THEN v.s
  ELSE IF v.t = "num" THEN (IF v.s = <<>> THEN NumToStr(v.n) ELSE v.s)
  ELSE IF v.n = 1 THEN <<"t","r","u","e">> ELSE <<"f","a","l","s","e">>

\* 2^32 - 2, the largest array index
MaxArrayIndexText == <<"4","2","9","4","9","6","7","2","9","4">>

\* a canonical array index: the decimal text of an integer in 0 .. 2^32 - 2
IsArrayIndex(k) ==
  /\ k # <<>>
  /\ \A i \in 1..Len(k) : k[i] \in Range(DigitChars)
  /\ Len(k) = 1 \/ k[1] # "0"
  /\ DecimalLeq(k, MaxArrayIndexText)

RECURSIVE SortIndexKeys(_)
\* a set of array-index keys in ascending numeric order
SortIndexKeys(ks) ==
  IF ks = {} THEN <<>>
  ELSE LET m == CHOOSE k \in ks : \A j \in ks : DecimalLeq(k, j)
       IN <<m>> \o SortIndexKeys(ks \ {m})

\* Object.keys: array-index keys ascending, then the other keys as inserted
ObjectKeys(v) ==
  SortIndexKeys({k \in Range(v.keys) : IsArrayIndex(k)})
    \o SelectSeq(v.keys, LAMBDA k : ~IsArrayIndex(k))

\* node[k] of an object
Prop(v, k) == v.items[CHOOSE i \in DOMAIN v.keys : v.keys[i] = k]

---------------------------------------------------------------------------
(* Path segments: type Seg = string | number *)

KeySeg(k) == [num |-> FALSE, s |-> k, n |-> 0]
IdxSeg(i) == [num |-> TRUE, s |-> <<>>, n |-> i]

\* String(seg)
SegText(seg) == IF seg.num THEN NumToStr(seg.n) ELSE seg.s

---------------------------------------------------------------------------
(* Search: pathJoin, findMatches *)

\* /^[A-Za-z_$][A-Za-z0-9_$]*$/.test(k)
IsIdentifier(k) ==
  /\ k # <<>>
  /\ k[1] \in Range(UpperChars) \cup Range(LowerChars) \cup {"_", "$"}
  /\ \A i \in 2..Len(k) :
       k[i] \in Range(UpperChars) \cup Range(LowerChars) \cup Range(DigitChars) \cup {"_", "$"}

RECURSIVE EscapeQuotes(_)
\* k.replace(/"/g, '\\"')
EscapeQuotes(k) ==
  IF k = <<>> THEN <<>>
  ELSE (IF Head(k) = "\"" THEN <<"\\", "\"">> ELSE <<Head(k)>>) \o EscapeQuotes(Tail(k))

\* pathJoin joining every key with a dot
pathJoin_AllDotted(parent, key) ==
  IF key.num THEN parent \o <<"[">> \o NumToStr(key.n) \o <<"]">>
  ELSE IF parent # <<>> THEN parent \o <<".">> \o key.s ELSE key.s

pathJoin(parent, key) ==
  IF key.num THEN parent \o <<"[">> \o NumToStr(key.n) \o <<"]">>
  ELSE IF IsIdentifier(key.s)
    THEN (IF parent # <<>> THEN parent \o <<".">> \o key.s ELSE key.s)
    ELSE parent \o <<"[", "\"">> \o EscapeQuotes(key.s) \o <<"\"", "]">>

RECURSIVE matchPath(_)
\* the path findMatches.visit has built when it reaches the node at segs:
\* '' at the root, pathJoin(path, k) one level down
matchPath(segs) ==
  IF segs = <<>> THEN <<>>
  ELSE pathJoin(matchPath(SubSeq(segs, 1, Len(segs) - 1)), segs[Len(segs)])

\* the preview length of findMatches.summarize
PreviewMax == 160

\* findMatches.summarize
summarize(v) ==
  IF v.t = "null" THEN <<"n","u","l","l">>
  ELSE IF v.t = "str"
    THEN (IF Len(v.s) > PreviewMax THEN slice0(v.s, PreviewMax) \o <<Ellipsis>> ELSE v.s)
  ELSE IF v.t \in {"num", "bool"} THEN LeafText(v)
  ELSE IF isArray(v)
    THEN <<"A","r","r","a","y","(">> \o NumToStr(Len(v.items)) \o <<")">>
  ELSE <<"O","b","j","e","c","t","(">> \o NumToStr(Len(ObjectKeys(v))) \o <<")">>

Match(path, kind, preview) == [path |-> path, kind |-> kind, preview |-> preview]

\* findMatches.push
push(out, m, maxMatches) == IF Len(out) < maxMatches THEN Append(out, m) ELSE out

\* a run of findMatches: `out`, and for the record the number of
\* comparisons with q made so far (tests) and of those made with out
\* already full (late)
NoRun == [out |-> <<>>, tests |-> 0, late |-> 0]

\* a key or a leaf is compared with q
Tested(run, maxMatches) ==
  [run EXCEPT !.tests = @ + 1,
              !.late = @ + (IF Len(run.out) >= maxMatches THEN 1 ELSE 0)]

\* the comparison with q and, when it holds, the push of m
TestedFor(run, holds, m, maxMatches) ==
  IF holds THEN [Tested(run, maxMatches) EXCEPT !.out = push(@, m, maxMatches)]
  ELSE Tested(run, maxMatches)

RECURSIVE visit(_, _, _, _, _), visitArray(_, _, _, _, _, _), visitObject(_, _, _, _, _, _, _)
\* findMatches.visit; the run is threaded through
visit(node, path, run, q, maxMatches) ==
  IF Len(run.out) >= maxMatches THEN run
  ELSE IF node.t = "null" THEN run
  ELSE IF isArray(node) THEN visitArray(node, 0, path, run, q, maxMatches)
  ELSE IF node.t = "obj" THEN visitObject(node, ObjectKeys(node), 1, path, run, q, maxMatches)
  ELSE TestedFor(run, includes(toLowerCase(LeafText(node)), q),
                 Match(path, "value", summarize(node)), maxMatches)

\* for (let i = 0; i < node.length; i++) visit(node[i], pathJoin(path, i))
visitArray(node, i, path, run, q, maxMatches) ==
  IF i < Len(node.items)
    THEN visitArray(node, i + 1, path,
                    visit(node.items[i + 1], pathJoin(path, IdxSeg(i)), run, q, maxMatches),
                    q, maxMatches)
    ELSE run

\* the rest of the object loop after the visit of the j-th key's value
ObjectNext(node, ks, j, path, afterValue, q, maxMatches) ==
  IF Len(afterValue.out) >= maxMatches THEN afterValue
  ELSE visitObject(node, ks, j + 1, path, afterValue, q, maxMatches)

\* the rest of the object loop without the break
ObjectNext_NoBreak(node, ks, j, path, afterValue, q, maxMatches) ==
  visitObject(node, ks, j + 1, path, afterValue, q, maxMatches)

\* the object loop with the key compared as written, not lower-cased
visitObject_KeyCaseKept(node, ks, j, path, run, q, maxMatches) ==
  IF j > Len(ks) THEN run
  ELSE ObjectNext(node, ks, j, path,
         visit(Prop(node, ks[j]), pathJoin(path, KeySeg(ks[j])),
               TestedFor(run, includes(ks[j], q),
                         Match(pathJoin(path, KeySeg(ks[j])), "key", ks[j]), maxMatches),
               q, maxMatches),
         q, maxMatches)

\* the object loop without `if (out.length >= maxMatches) break`
visitObject_NoBreak(node, ks, j, path, run, q, maxMatches) ==
  IF j > Len(ks) THEN run
  ELSE ObjectNext_NoBreak(node, ks, j, path,
         visit(Prop(node, ks[j]), pathJoin(path, KeySeg(ks[j])),
               TestedFor(run, includes(toLowerCase(ks[j]), q),
                         Match(pathJoin(path, KeySeg(ks[j])), "key", ks[j]), maxMatches),
               q, maxMatches),
         q, maxMatches)

\* for (const k of Object.keys(node)) { ... }, from the j-th key on
visitObject(node, ks, j, path, run, q, maxMatches) ==
  IF j > Len(ks) THEN run
  ELSE ObjectNext(node, ks, j, path,
         visit(Prop(node, ks[j]), pathJoin(path, KeySeg(ks[j])),
               TestedFor(run, includes(toLowerCase(ks[j]), q),
                         Match(pathJoin(path, KeySeg(ks[j])), "key", ks[j]), maxMatches),
               q, maxMatches),
         q, maxMatches)

\* findMatches with the record of its comparisons
findMatchesRun(root, queryRaw, maxMatches) ==
  IF toLowerCase(trim(queryRaw)) = <<>> THEN NoRun
  ELSE visit(root, <<>>, NoRun, toLowerCase(trim(queryRaw)), maxMatches)

findMatches(root, queryRaw, maxMatches) == findMatchesRun(root, queryRaw, maxMatches).out

---------------------------------------------------------------------------
(* Pointers and the expandable nodes *)

segToPointer(seg) == encodeURIComponent(SegText(seg))

RECURSIVE JoinSlash(_)
\* xs.join('/')
JoinSlash(xs) ==
  IF xs = <<>> THEN <<>>
  ELSE IF Len(xs) = 1 THEN xs[1]
  ELSE xs[1] \o <<"/">> \o JoinSlash(Tail(xs))

pointerFromSegments(segs) ==
  IF Len(segs) = 0 THEN <<"/">>
  ELSE <<"/">> \o JoinSlash([i \in 1..Len(segs) |-> segToPointer(segs[i])])

rootPointer == <<"/">>

isExpandable(v) == v.t # "null" /\ v.t \in {"arr", "obj"}

RECURSIVE walk(_, _, _, _), walkArray(_, _, _, _, _), walkObject(_, _, _, _, _, _)
\* collectExpandablePointers.walk; `out` is threaded through
walk(node, segs, out, limit) ==
  IF Cardinality(out) >= limit THEN out
  ELSE IF ~isExpandable(node) THEN out
  ELSE LET added == out \cup {pointerFromSegments(segs)}
       IN IF isArray(node) THEN walkArray(node, 0, segs, added, limit)
          ELSE walkObject(node, ObjectKeys(node), 1, segs, added, limit)

walkArray(node, i, segs, out, limit) ==
  IF i < Len(node.items)
    THEN LET o == walk(node.items[i + 1], Append(segs, IdxSeg(i)), out, limit)
         IN IF Cardinality(o) >= limit THEN o
            ELSE walkArray(node, i + 1, segs, o, limit)
    ELSE out

walkObject(node, ks, j, segs, out, limit) ==
  IF j > Len(ks) THEN out
  ELSE LET o == walk(Prop(node, ks[j]), Append(segs, KeySeg(ks[j])), out, limit)
       IN IF Cardinality(o) >= limit THEN o
          ELSE walkObject(node, ks, j + 1, segs, o, limit)

collectExpandablePointers(root, limit) == walk(root, <<>>, {}, limit)

---------------------------------------------------------------------------
(* FormViewer: the transitions of `expanded` *)

\* toggle without `next.add(rootPointer)`
toggleSet_NoRootKept(prev, segs) ==
  LET p == pointerFromSegments(segs)
  IN IF p \in prev THEN prev \ {p} ELSE prev \cup {p}

\* toggle that never deletes
toggleSet_AddOnly(prev, segs) == prev \cup {pointerFromSegments(segs), <<"/">>}

\* toggle that closes the pointers below the one it closes
toggleSet_ClosesBelow(prev, segs) ==
  LET p == pointerFromSegments(segs)
      below == {d \in prev : Len(d) > Len(p) /\ SubSeq(d, 1, Len(p) + 1) = p \o <<"/">>}
  IN (IF p \in prev THEN prev \ ({p} \cup below) ELSE prev \cup {p}) \cup {<<"/">>}

\* the updater of FormViewer.toggle
toggleSet(prev, segs) ==
  LET p == pointerFromSegments(segs)
      next == IF p \in prev THEN prev \ {p} ELSE prev \cup {p}
  IN next \cup {rootPointer}

\* ensureOpen that opens the root and the node, not the ancestors between
ensurePointers_NodeOnly(segs) == {<<"/">>, pointerFromSegments(segs)}

\* the pointers FormViewer.ensureOpen collects
ensurePointers(segs) ==
  {rootPointer} \cup {pointerFromSegments(SubSeq(segs, 1, i + 1)) : i \in 0..(Len(segs) - 1)}

\* the updater of FormViewer.ensureOpen
ensureOpenSet(prev, segs) == prev \cup ensurePointers(segs)

\* the limit FormViewer.expandAll passes and compares with
ExpandAllLimit == 6000

CappedToast == "Large JSON: expanded many nodes (capped)."

\* expandAll that warns only when the set outgrew the limit
expandAllWith_StrictCap(value, limit) ==
  LET set == collectExpandablePointers(value, limit)
  IN [capped |-> Cardinality(set) > limit, expanded |-> set \cup {<<"/">>}]

\* FormViewer.expandAll for a limit: the new set and whether the toast is raised
expandAllWith(value, limit) ==
  LET set == collectExpandablePointers(value, limit)
  IN [capped |-> Cardinality(set) >= limit, expanded |-> set \cup {rootPointer}]

---------------------------------------------------------------------------
(* The nodes of a value *)

RECURSIVE NodePaths(_)
\* the paths (sequences of Seg) of all nodes of v, the root's <<>> included
NodePaths(v) ==
  {<<>>} \cup
  (IF isArray(v)
     THEN UNION {{<<IdxSeg(i - 1)>> \o p : p \in NodePaths(v.items[i])} : i \in DOMAIN v.items}
   ELSE IF v.t = "obj"
     THEN UNION {{<<KeySeg(v.keys[i])>> \o p : p \in NodePaths(v.items[i])} : i \in DOMAIN v.keys}
   ELSE {})

RECURSIVE NodeAt(_, _)
\* the node of v at a path of NodePaths(v)
NodeAt(v, segs) ==
  IF segs = <<>> THEN v
  ELSE IF Head(segs).num THEN NodeAt(v.items[Head(segs).n + 1], Tail(segs))
  ELSE NodeAt(Prop(v, Head(segs).s), Tail(segs))

Prefixes(segs) == {SubSeq(segs, 1, i) : i \in 0..Len(segs)}
ProperPrefixes(segs) == {SubSeq(segs, 1, i) : i \in 0..(Len(segs) - 1)}

---------------------------------------------------------------------------
(* JSON text: JSON.parse and JSON.stringify.  Characters without a TLA+    *)
(* escape are written "<U+XXXX>", one character each.  Numbers are decimal *)
(* values: a literal of more than 17 significant digits, or below 2^-1022, *)
(* is not rounded.                                                         *)

\* U+0008 and U+0001, one character each
Backspace == "<U+0008>"
Control1 == "<U+0001>"

\* the white space of the JSON grammar
JsonWs == {" ", "\t", "\n", "\r"}

\* characters a JSON string may not hold unescaped (those of the alphabet)
ControlChars == {"\n", "\r", "\t", "\f", Backspace, Control1}

\* text[i], or "" beyond the text
At(text, i) == IF i \in 1..Len(text) THEN text[i] ELSE ""

\* the first index from i on whose character is not in S (Len(text) + 1 if none)
SkipWhile(text, i, S) ==
  LET stop == {j \in i..(Len(text) + 1) : At(text, j) \notin S}
  IN CHOOSE j \in stop : \A k \in stop : j <= k

\* the word w stands in text at i
StartsAt(text, i, w) ==
  /\ i + Len(w) - 1 <= Len(text)
  /\ SubSeq(text, i, i + Len(w) - 1) = w

Text_null == <<"n","u","l","l">>
Text_true == <<"t","r","u","e">>
Text_false == <<"f","a","l","s","e">>
Text_Infinity == <<"I","n","f","i","n","i","t","y">>

\* a finite number that is not a small integer, and the infinities, held as
\* the text String(value) gives
JNumText(txt) == [t |-> "num", n |-> 0, s |-> txt, keys |-> <<>>, items |-> <<>>]

\* Number.isFinite
isFiniteNum(v) == v.s \notin {Text_Infinity, <<"-">> \o Text_Infinity}

\* a step of the parser: the value read and the index after it, or the
\* index of the failure
POk(v, i) == [ok |-> TRUE, v |-> v, i |-> i]
PFail(i) == [ok |-> FALSE, v |-> JNull, i |-> i]

StripLeft(d) == SubSeq(d, SkipWhile(d, 1, {"0"}), Len(d))
StripRight(d) ==
  LET keep == {j \in 1..Len(d) : d[j] # "0"}
  IN IF keep = {} THEN <<>>
     ELSE SubSeq(d, 1, CHOOSE j \in keep : \A k \in keep : k <= j)

RECURSIVE DigitsToNat(_)
DigitsToNat(d) ==
  IF d = <<>> THEN 0
  ELSE 10 * DigitsToNat(SubSeq(d, 1, Len(d) - 1)) + DigitVal(d[Len(d)])

RECURSIVE Pow10(_)
Pow10(n) == IF n = 0 THEN 1 ELSE 10 * Pow10(n - 1)

\* 0.a < 0.b for two texts of decimal digits
FracLess(a, b) ==
  LET da(i) == IF i <= Len(a) THEN DigitVal(a[i]) ELSE 0
      db(i) == IF i <= Len(b) THEN DigitVal(b[i]) ELSE 0
      n == IF Len(a) < Len(b) THEN Len(b) ELSE Len(a)
  IN \E i \in 1..n : da(i) < db(i) /\ \A j \in 1..(i - 1) : da(j) = db(j)

\* 2^1024 - 2^969 = 0.179769313486231580794e309 (to 21 digits): from here on
\* a literal reads as Infinity
OverflowDigits ==
  <<"1","7","9","7","6","9","3","1","3","4","8","6","2","3","1","5","8","0","7","9","4">>
OverflowPoint == 309
\* 2^-1075 = 0.24703282292062327e-323 (to 17 digits): up to here a literal
\* reads as 0
UnderflowDigits ==
  <<"2","4","7","0","3","2","8","2","2","9","2","0","6","2","3","2","8">>
UnderflowPoint == -323
\* Number::toString writes the digits out up to 10^21 and down to 10^-6
MaxPlainPoint == 21
MinPlainPoint == -6
\* an integer is held as JNum below 10^9
SmallIntPoint == 9

\* Number::toString of 0.dig * 10^point (dig without leading or trailing zeros)
DecToStr(dig, point) ==
  LET k == Len(dig)
      e == point - 1
  IN IF k <= point /\ point <= MaxPlainPoint THEN dig \o Rep("0", point - k)
     ELSE IF 0 < point /\ point <= MaxPlainPoint
       THEN SubSeq(dig, 1, point) \o <<".">> \o SubSeq(dig, point + 1, k)
     ELSE IF MinPlainPoint < point /\ point <= 0
       THEN <<"0", ".">> \o Rep("0", 0 - point) \o dig
     ELSE (IF k = 1 THEN dig ELSE <<dig[1], ".">> \o Tail(dig))
          \o <<"e">> \o (IF e < 0 THEN <<"-">> \o NatToStr(0 - e) ELSE <<"+">> \o NatToStr(e))

\* the Number a JSON number literal reads as
MakeNumber(neg, int, frac, expNeg, exp) ==
  LET all == int \o frac
      lead == SkipWhile(all, 1, {"0"}) - 1
      dig == StripRight(StripLeft(all))
      ex == StripLeft(exp)
      mag == IF Len(ex) > 4 THEN 99999 ELSE DigitsToNat(ex)
      point == Len(int) - lead + (IF expNeg THEN 0 - mag ELSE mag)
      sign == IF neg THEN <<"-">> ELSE <<>>
  IN IF dig = <<>> THEN JNum(0)
     ELSE IF point > OverflowPoint \/ (point = OverflowPoint /\ ~FracLess(dig, OverflowDigits))
       THEN JNumText(sign \o Text_Infinity)
     ELSE IF point < UnderflowPoint \/ (point = UnderflowPoint /\ FracLess(dig, UnderflowDigits))
       THEN JNum(0)
     ELSE IF Len(dig) <= point /\ point <= SmallIntPoint
       THEN JNum((IF neg THEN -1 ELSE 1) * DigitsToNat(dig) * Pow10(point - Len(dig)))
     ELSE JNumText(sign \o DecToStr(dig, point))

\* a number literal at i
NumberEnd(text, neg, a, b, c, d) ==
  LET hasFrac == At(text, b) = "."
      hasExp == At(text, c) \in {"e", "E"}
      e == IF hasExp THEN SkipWhile(text, d, Range(DigitChars)) ELSE c
  IN IF b = a THEN PFail(a)
     ELSE IF hasFrac /\ c = b + 1 THEN PFail(c)
     ELSE IF hasExp /\ e = d THEN PFail(d)
     ELSE POk(MakeNumber(neg, SubSeq(text, a, b - 1),
                         IF hasFrac THEN SubSeq(text, b + 1, c - 1) ELSE <<>>,
                         d = c + 2 /\ At(text, c + 1) = "-",
                         IF hasExp THEN SubSeq(text, d, e - 1) ELSE <<>>), e)

\* the exponent of a number literal whose fraction ends before c: its digits
\* start at d, after e or E and a sign
NumberExponent(text, neg, a, b, c) ==
  NumberEnd(text, neg, a, b, c,
            IF At(text, c) \in {"e", "E"} /\ At(text, c + 1) \in {"+", "-"} THEN c + 2 ELSE c + 1)

\* the fraction of a number literal whose integer part ends before b
NumberFraction(text, neg, a, b) ==
  NumberExponent(text, neg, a, b,
                 IF At(text, b) = "." THEN SkipWhile(text, b + 1, Range(DigitChars)) ELSE b)

\* the integer part of a number literal, from a on: 0, or digits
NumberInteger(text, neg, a) ==
  NumberFraction(text, neg, a,
                 IF At(text, a) = "0" THEN a + 1 ELSE SkipWhile(text, a, Range(DigitChars)))

parseNumber(text, i) ==
  NumberInteger(text, At(text, i) = "-", IF At(text, i) = "-" THEN i + 1 ELSE i)

HexChars == <<"0","1","2","3","4","5","6","7","8","9","A","B","C","D","E","F">>
IsHex(c) == LowerChar(c) \in {LowerChar(HexChars[i]) : i \in DOMAIN HexChars}
HexVal(c) == (CHOOSE i \in DOMAIN HexChars : LowerChar(HexChars[i]) = LowerChar(c)) - 1
UpperHex(c) == HexChars[HexVal(c) + 1]

\* the character \uXXXX stands for
UnicodeChar(h) ==
  LET code == 16 * HexVal(h[3]) + HexVal(h[4])
      low == h[1] = "0" /\ h[2] = "0"
  IN IF low /\ code \in 48..57 THEN DigitChars[code - 47]
     ELSE IF low /\ code \in 65..90 THEN UpperChars[code - 64]
     ELSE IF low /\ code \in 97..122 THEN LowerChars[code - 96]
     ELSE IF low /\ code = 32 THEN " "
     ELSE IF low /\ code = 34 THEN "\""
     ELSE IF low /\ code = 47 THEN "/"
     ELSE IF low /\ code = 92 THEN "\\"
     ELSE IF low /\ code = 9 THEN "\t"
     ELSE IF low /\ code = 10 THEN "\n"
     ELSE IF low /\ code = 12 THEN "\f"
     ELSE IF low /\ code = 13 THEN "\r"
     ELSE "<U+" \o UpperHex(h[1]) \o UpperHex(h[2]) \o UpperHex(h[3]) \o UpperHex(h[4]) \o ">"

\* the character of a two-character escape
EscapeLetters == <<"\"", "\\", "/", "b", "f", "n", "r", "t">>
EscapeValues == <<"\"", "\\", "/", Backspace, "\f", "\n", "\r", "\t">>

RECURSIVE parseChars(_, _, _)
\* the characters of a string literal from j on, up to its closing quote
parseChars(text, j, acc) ==
  LET c == At(text, j)
      e == At(text, j + 1)
  IN IF c = "" \/ c \in ControlChars THEN PFail(j)
     ELSE IF c = "\"" THEN POk(acc, j + 1)
     ELSE IF c # "\\" THEN parseChars(text, j + 1, Append(acc, c))
     ELSE IF e \in Range(EscapeLetters)
       THEN parseChars(text, j + 2,
              Append(acc, EscapeValues[CHOOSE i \in DOMAIN EscapeLetters : EscapeLetters[i] = e]))
     ELSE IF e = "u" /\ \A k \in 2..5 : At(text, j + k) # "" /\ IsHex(At(text, j + k))
       THEN parseChars(text, j + 6, Append(acc, UnicodeChar(SubSeq(text, j + 2, j + 5))))
     ELSE PFail(j + 1)

\* a string literal at i
parseString(text, i) ==
  IF At(text, i) = "\"" THEN parseChars(text, i + 1, <<>>) ELSE PFail(i)

\* obj[k] = v of the parser: a repeated key keeps its place and takes the
\* later value
ObjPut(obj, k, v) ==
  IF k \in Range(obj.keys)
    THEN [obj EXCEPT !.items[CHOOSE i \in DOMAIN obj.keys : obj.keys[i] = k] = v]
    ELSE JObj(Append(obj.keys, k), Append(obj.items, v))

\* the value of a string literal that was read
StringValue(r) == IF r.ok THEN POk(JStr(r.v), r.i) ELSE r

RECURSIVE parseValue(_, _), parseElements(_, _, _), parseMembers(_, _, _)
\* a JSON value from i0 on, white space first
parseValue(text, i0) ==
  LET i == SkipWhile(text, i0, JsonWs)
      c == At(text, i)
      j == SkipWhile(text, i + 1, JsonWs)
  IN IF c = "{"
       THEN IF At(text, j) = "}" THEN POk(JObj(<<>>, <<>>), j + 1)
            ELSE parseMembers(text, j, JObj(<<>>, <<>>))
     ELSE IF c = "["
       THEN IF At(text, j) = "]" THEN POk(JArr(<<>>), j + 1)
            ELSE parseElements(text, j, <<>>)
     ELSE IF c = "\""
       THEN StringValue(parseString(text, i))
     ELSE IF c = "-" \/ c \in Range(DigitChars) THEN parseNumber(text, i)
     ELSE IF StartsAt(text, i, Text_null) THEN POk(JNull, i + 4)
     ELSE IF StartsAt(text, i, Text_true) THEN POk(JBool(TRUE), i + 4)
     ELSE IF StartsAt(text, i, Text_false) THEN POk(JBool(FALSE), i + 5)
     ELSE PFail(i)

\* the array after its element r was read
ElementNext(text, acc, r) ==
  LET j == SkipWhile(text, r.i, JsonWs)
  IN IF ~r.ok THEN r
     ELSE IF At(text, j) = "," THEN parseElements(text, j + 1, Append(acc, r.v))
     ELSE IF At(text, j) = "]" THEN POk(JArr(Append(acc, r.v)), j + 1)
     ELSE PFail(j)

\* the elements of an array from the element at i on
parseElements(text, i, acc) == ElementNext(text, acc, parseValue(text, i))

\* the object after the value r of its member key was read
MemberNext(text, obj, key, r) ==
  LET j == SkipWhile(text, r.i, JsonWs)
  IN IF ~r.ok THEN r
     ELSE IF At(text, j) = ","
       THEN parseMembers(text, SkipWhile(text, j + 1, JsonWs), ObjPut(obj, key, r.v))
     ELSE IF At(text, j) = "}" THEN POk(ObjPut(obj, key, r.v), j + 1)
     ELSE PFail(j)

\* the member whose key k was read: the colon and the value
MemberValue(text, obj, k) ==
  LET colon == SkipWhile(text, k.i, JsonWs)
  IN IF ~k.ok THEN k
     ELSE IF At(text, colon) # ":" THEN PFail(colon)
     ELSE MemberNext(text, obj, k.v, parseValue(text, colon + 1))

\* the members of an object from the key at i on
parseMembers(text, i, obj) == MemberValue(text, obj, parseString(text, i))

\* the results of safeJsonParse, formatJson and minifyJson; the message of
\* a SyntaxError is modelled by the index the parser stopped at
Ok(v) == [ok |-> TRUE, value |-> v]
NotOkAt(i) == [ok |-> FALSE, value |-> JNull, error |-> i]

\* the text after its value r: white space only, or a SyntaxError
ParseEnd(text, r) ==
  LET end == SkipWhile(text, r.i, JsonWs)
  IN IF ~r.ok THEN NotOkAt(r.i)
     ELSE IF end = Len(text) + 1 THEN Ok(r.v)
     ELSE NotOkAt(end)

\* JSON.parse, a thrown SyntaxError as NotOkAt
JSONParse(text) == ParseEnd(text, parseValue(text, 1))

\* QuoteJSONString on one character
QuoteChar(c) ==
  IF c \in Range(EscapeValues) /\ c # "/"
    THEN <<"\\", EscapeLetters[CHOOSE i \in DOMAIN EscapeValues : EscapeValues[i] = c]>>
  ELSE IF c = Control1 THEN <<"\\", "u", "0", "0", "0", "1">>
  ELSE <<c>>

RECURSIVE QuoteChars(_)
QuoteChars(s) == IF s = <<>> THEN <<>> ELSE QuoteChar(Head(s)) \o QuoteChars(Tail(s))

\* QuoteJSONString
Quote(s) == <<"\"">> \o QuoteChars(s) \o <<"\"">>

RECURSIVE Join(_, _)
\* Array.prototype.join of texts
Join(parts, sep) ==
  IF parts = <<>> THEN <<>>
  ELSE IF Len(parts) = 1 THEN parts[1]
  ELSE parts[1] \o sep \o Join(Tail(parts), sep)

\* the brackets of SerializeJSONArray / SerializeJSONObject around the parts,
\* for an indentation width gap at the indentation ind
Wrap(open, close, parts, gap, ind) ==
  IF gap = 0 THEN <<open>> \o Join(parts, <<",">>) \o <<close>>
  ELSE <<open, "\n">> \o Rep(" ", ind + gap)
       \o Join(parts, <<",", "\n">> \o Rep(" ", ind + gap))
       \o <<"\n">> \o Rep(" ", ind) \o <<close>>

RECURSIVE stringify(_, _, _)
\* JSON.stringify(v, null, gap) of a parsed value, at the indentation ind
stringify(v, gap, ind) ==
  IF v.t = "null" THEN Text_null
  ELSE IF v.t = "bool" THEN LeafText(v)
  ELSE IF v.t = "num" THEN (IF isFiniteNum(v) THEN LeafText(v) ELSE Text_null)
  ELSE IF v.t = "str" THEN Quote(v.s)
  ELSE IF v.t = "arr"
    THEN IF v.items = <<>> THEN <<"[", "]">>
         ELSE Wrap("[", "]",
                   [i \in DOMAIN v.items |-> stringify(v.items[i], gap, ind + gap)], gap, ind)
  ELSE LET ks == ObjectKeys(v)
       IN IF ks = <<>> THEN <<"{", "}">>
          ELSE Wrap("{", "}",
                    [i \in DOMAIN ks |->
                       Quote(ks[i]) \o <<":">> \o (IF gap = 0 THEN <<>> ELSE <<" ">>)
                         \o stringify(Prop(v, ks[i]), gap, ind + gap)], gap, ind)

\* the indentation formatJson asks for
FormatGap == 2

\* safeJsonParse with the empty text only, not the trimmed text, read as null
safeJsonParse_EmptyOnly(text) == IF text = <<>> THEN Ok(JNull) ELSE JSONParse(text)

safeJsonParse(text) == IF trim(text) = <<>> THEN Ok(JNull) ELSE JSONParse(text)

\* the result of a parse passed on: its failure, or its value written
\* with gap
Written(res, gap) == IF ~res.ok THEN res ELSE Ok(stringify(res.value, gap, 0))

\* the same with an empty output for a failure
Written_EmptyOnError(res, gap) ==
  IF ~res.ok THEN Ok(<<>>) ELSE Ok(stringify(res.value, gap, 0))

\* formatJson returning an empty output for a text that does not parse
formatJson_EmptyOnError(text) == Written_EmptyOnError(safeJsonParse(text), FormatGap)

formatJson(text) == Written(safeJsonParse(text), FormatGap)

minifyJson(text) == Written(safeJsonParse(text), 0)

---------------------------------------------------------------------------
(* The fetch proxy: GET /api/fetch?url=...                                 *)

\* req.nextUrl.searchParams.get('url'): null, or the text of the parameter
NoParam == [present |-> FALSE, text |-> <<>>]
Param(text) == [present |-> TRUE, text |-> text]

\* the first index from i on whose character is in S (Len(text) + 1 if none)
SkipUntil(text, i, S) ==
  LET stop == {j \in i..(Len(text) + 1) : j = Len(text) + 1 \/ text[j] \in S}
  IN CHOOSE j \in stop : \A k \in stop : j <= k

Text_https == <<"h","t","t","p","s">>
Text_http == <<"h","t","t","p">>

\* the schemes whose URL needs a host
HostSchemes == {Text_http, Text_https, <<"w","s">>, <<"w","s","s">>, <<"f","t","p">>}

\* characters of a scheme after its first letter
SchemeChars ==
  Range(UpperChars) \cup Range(LowerChars) \cup Range(DigitChars) \cup {"+", "-", "."}

\* new URL(url) without a base: the scheme up to the first ":" in lower
\* case and, for a scheme that needs one, a host; ok: FALSE is the TypeError
ParseUrl(url) ==
  LET u == trim(url)
      colon == SkipWhile(u, 1, SchemeChars)
      scheme == toLowerCase(SubSeq(u, 1, colon - 1))
      rest == SubSeq(u, colon + 1, Len(u))
      hostStart == SkipWhile(rest, 1, {"/", "\\"})
      hostEnd == SkipUntil(rest, hostStart, {"/", "\\", "?", "#"})
      host == SubSeq(rest, hostStart, hostEnd - 1)
  IN IF At(u, colon) # ":" \/ colon = 1
          \/ At(u, 1) \notin Range(UpperChars) \cup Range(LowerChars)
       THEN [ok |-> FALSE, protocol |-> <<>>]
     ELSE IF scheme \in HostSchemes /\ (host = <<>> \/ \E i \in DOMAIN host : host[i] \in {" ", "<", ">", "^", "|"})
       THEN [ok |-> FALSE, protocol |-> <<>>]
     ELSE [ok |-> TRUE, protocol |-> scheme \o <<":">>]

\* the abort timer of the proxy, in milliseconds
FetchTimeoutMs == 10000
\* the most characters of a body the proxy forwards
ProxyMaxChars == 2000000

\* a response body: its first characters and the number of further
\* characters, which the proxy never looks at
Body(text, more) == [text |-> text, more |-> more]
\* text.length
BodyLength(body) == Len(body.text) + body.more

\* what the upstream does with a fetch: fails in transport (thrown, with or
\* without a message), or answers with a status after headersMs and then
\* delivers the body, or fails to, after bodyMs more
TransportFailure(hasMessage, message) ==
  [kind |-> "throws", hasMessage |-> hasMessage, message |-> message,
   headersMs |-> 0, status |-> 0, bodyFails |-> FALSE, bodyMs |-> 0, body |-> Body(<<>>, 0)]
Answer(headersMs, status, bodyFails, bodyMs, body) ==
  [kind |-> "answers", hasMessage |-> FALSE, message |-> "",
   headersMs |-> headersMs, status |-> status, bodyFails |-> bodyFails, bodyMs |-> bodyMs,
   body |-> body]

\* NextResponse.json(body, {status}); fetched: fetch was called; read:
\* res.text() was called
JsonError(error, status, fetched, read) ==
  [status |-> status, body |-> [error |-> error], fetched |-> fetched, read |-> read]
JsonText(body) == [status |-> 200, body |-> [text |-> body], fetched |-> TRUE, read |-> TRUE]

AbortMessage == "This operation was aborted"
BodyFailureMessage == "terminated"

\* the catch of GET: e?.message ?? 'Fetch failed'
Caught(hasMessage, message, read) ==
  JsonError(IF hasMessage THEN message ELSE "Fetch failed", 502, TRUE, read)

\* res.ok
StatusOk(status) == status \in 200..299

\* the request goes on to the fetch
Pass == [status |-> 0, body |-> [error |-> ""], fetched |-> FALSE, read |-> FALSE]

\* the validation of GET with every scheme let through
Validation_AnyScheme(url) ==
  IF ~url.present \/ url.text = <<>> THEN JsonError("Missing url", 400, FALSE, FALSE)
  ELSE IF ~ParseUrl(url.text).ok THEN JsonError("Invalid url", 400, FALSE, FALSE)
  ELSE Pass

\* GET up to the fetch: the 400 response, or Pass
Validation(url) ==
  IF ~url.present \/ url.text = <<>> THEN JsonError("Missing url", 400, FALSE, FALSE)
  ELSE IF ~ParseUrl(url.text).ok THEN JsonError("Invalid url", 400, FALSE, FALSE)
  ELSE IF ParseUrl(url.text).protocol # Text_https \o <<":">>
    THEN JsonError("Only https URLs are allowed", 400, FALSE, FALSE)
  ELSE Pass

\* the try block of GET with the cap one character lower
Forward_CapOneLower(upstream) ==
  IF upstream.kind = "throws" THEN Caught(upstream.hasMessage, upstream.message, FALSE)
  ELSE IF upstream.headersMs > FetchTimeoutMs THEN Caught(TRUE, AbortMessage, FALSE)
  ELSE IF ~StatusOk(upstream.status)
    THEN JsonError("Upstream error: " \o ToString(upstream.status), 502, TRUE, FALSE)
  ELSE IF upstream.headersMs + upstream.bodyMs > FetchTimeoutMs
    THEN Caught(TRUE, AbortMessage, TRUE)
  ELSE IF upstream.bodyFails THEN Caught(TRUE, BodyFailureMessage, TRUE)
  ELSE IF BodyLength(upstream.body) >= ProxyMaxChars
    THEN JsonError("Response too large (>2MB)", 413, TRUE, TRUE)
  ELSE JsonText(upstream.body)

\* the try block of GET with res.ok not looked at
Forward_StatusIgnored(upstream) ==
  IF upstream.kind = "throws" THEN Caught(upstream.hasMessage, upstream.message, FALSE)
  ELSE IF upstream.headersMs > FetchTimeoutMs THEN Caught(TRUE, AbortMessage, FALSE)
  ELSE IF upstream.headersMs + upstream.bodyMs > FetchTimeoutMs
    THEN Caught(TRUE, AbortMessage, TRUE)
  ELSE IF upstream.bodyFails THEN Caught(TRUE, BodyFailureMessage, TRUE)
  ELSE IF BodyLength(upstream.body) > ProxyMaxChars
    THEN JsonError("Response too large (>2MB)", 413, TRUE, TRUE)
  ELSE JsonText(upstream.body)

\* the try block of GET: the fetch, res.ok, res.text() and the size cap
Forward(upstream) ==
  IF upstream.kind = "throws" THEN Caught(upstream.hasMessage, upstream.message, FALSE)
  ELSE IF upstream.headersMs > FetchTimeoutMs THEN Caught(TRUE, AbortMessage, FALSE)
  ELSE IF ~StatusOk(upstream.status)
    THEN JsonError("Upstream error: " \o ToString(upstream.status), 502, TRUE, FALSE)
  ELSE IF upstream.headersMs + upstream.bodyMs > FetchTimeoutMs
    THEN Caught(TRUE, AbortMessage, TRUE)
  ELSE IF upstream.bodyFails THEN Caught(TRUE, BodyFailureMessage, TRUE)
  ELSE IF BodyLength(upstream.body) > ProxyMaxChars
    THEN JsonError("Response too large (>2MB)", 413, TRUE, TRUE)
  ELSE JsonText(upstream.body)

\* the 400 response of the validation, or the response of the try block
Responded(refusal, upstream) == IF refusal # Pass THEN refusal ELSE Forward(upstream)

\* GET: the response to a request, given what the upstream does
GET(url, upstream) == Responded(Validation(url), upstream)

---------------------------------------------------------------------------
(* The documents of a session *)

Text_hello == <<"h","e","l","l","o">>
Text_paste == <<"p","a","s","t","e"," ","J","S","O","N"," ","h","e","r","e">>
Text_bob == <<"b","o","b">>
Text_list == <<"l","i","s","t">>

\* JSON.parse of Page's initial raw text
PlaceholderDoc == JObj(<<Text_hello>>, <<JStr(Text_paste)>>)

\* {"a": {"bob": 1}, "list": [1, 2, "bob"]}
ExampleDoc ==
  JObj(<< <<"a">>, Text_list >>,
       << JObj(<<Text_bob>>, <<JNum(1)>>), JArr(<<JNum(1), JNum(2), JStr(Text_bob)>>) >>)

\* {"a": {"bob": [1]}}
NestedDoc == JObj(<< <<"a">> >>, << JObj(<<Text_bob>>, <<JArr(<<JNum(1)>>)>>) >>)

\* {"": [[]]}
EmptyKeyDoc == JObj(<< <<>> >>, << JArr(<<JArr(<<>>)>>) >>)

\* Page's initial raw text: {\n  "hello": "paste JSON here"\n}
Text_Placeholder ==
  <<"{","\n"," "," ","\"","h","e","l","l","o","\"",":"," ","\"","p","a","s",
    "t","e"," ","J","S","O","N"," ","h","e","r","e","\"","\n","}">>

\* {"a":{"bob":[1]}}
Text_Nested ==
  <<"{","\"","a","\"",":","{","\"","b","o","b","\"",":","[","1","]","}","}">>

\* {"":[[]]}
Text_EmptyKey ==
  <<"{","\"","\"",":","[","[","]","]","}">>

\* {
Text_Broken ==
  <<"{">>

\* 1e999
Text_Overflow ==
  <<"1","e","9","9","9">>

\* {"n": [-1e400, 2]}
Text_OverflowInside ==
  <<"{","\"","n","\"",":"," ","[","-","1","e","4","0","0",","," ","2","]",
    "}">>

\* [-0, 1.50, 12e20, 1E-7, 100]
Text_Numbers ==
  <<"[","-","0",","," ","1",".","5","0",","," ","1","2","e","2","0",","," ",
    "1","E","-","7",","," ","1","0","0","]">>

\* {"b":1,"10":{"a":[]},"9":"x"}
Text_IndexKeys ==
  <<"{","\"","b","\"",":","1",",","\"","1","0","\"",":","{","\"","a","\"",
    ":","[","]","}",",","\"","9","\"",":","\"","x","\"","}">>

\* {"a":1,"b":2,"a":[]}
Text_RepeatedKey ==
  <<"{","\"","a","\"",":","1",",","\"","b","\"",":","2",",","\"","a","\"",
    ":","[","]","}">>

\* ["\u0041\n\"\\\/", "\b\u0001"]
Text_Escapes ==
  <<"[","\"","\\","u","0","0","4","1","\\","n","\\","\"","\\","\\","\\","/",
    "\"",","," ","\"","\\","b","\\","u","0","0","0","1","\"","]">>

\*  \f 
Text_FormFeed ==
  <<" ","\f"," ">>

\* [1,]
Text_TrailingComma ==
  <<"[","1",",","]">>

\* the texts a session's raw takes: three documents, the empty text and a
\* text that does not parse
SessionTexts == {Text_Placeholder, Text_Nested, Text_EmptyKey, <<>>, Text_Broken}

\* what safeJsonParse returns for them
SessionParsed == {safeJsonParse(text) : text \in SessionTexts}

SessionQueries == {<<>>, <<"b">>, <<" ", "b", " ">>, Text_bob}

ViewModes == {"tree", "form", "code", "text"}

---------------------------------------------------------------------------
(* Page and FormViewer *)

\* the maxMatches Page passes to findMatches
PageMaxMatches == 200

\* parsed.value ?? {}
ValueOrEmpty(p) == IF p.value = JNull THEN JObj(<<>>, <<>>) ELSE p.value

\* Page.matches without the two-character threshold
PageMatches_NoThreshold(p, query) ==
  IF ~p.ok THEN <<>> ELSE findMatches(ValueOrEmpty(p), query, PageMaxMatches)

\* Page.matches (useMemo over parsed and search)
PageMatches(p, query) ==
  IF ~p.ok THEN <<>>
  ELSE IF Len(trim(query)) < 2 THEN <<>>
  ELSE findMatches(ValueOrEmpty(p), query, PageMaxMatches)

\* FormViewer is rendered: the output panel's parsed.ok and viewMode === 'form'
FormMounted(p, mode) == p.ok /\ mode = "form"

\* what the output panel shows: the request to fix the JSON, or the view
\* that is selected
OutputView(p, mode) == IF ~p.ok THEN "fix" ELSE mode

\* the match list under the search input is shown
MatchListShown(p, query) == Len(trim(query)) >= 2 /\ p.ok

\* a child row of FormViewer.renderNode is in the tree that is rendered
Rendered(segs) ==
  /\ segs # <<>>
  /\ segs \in NodePaths(ValueOrEmpty(parsed))
  /\ \A q \in ProperPrefixes(segs) : pointerFromSegments(q) \in expanded

\* the rows renderNode makes for node: the key or index of each child and
\* the child
Children(node) ==
  IF isArray(node) THEN {<<IdxSeg(i - 1), node.items[i]>> : i \in DOMAIN node.items}
  ELSE {<<KeySeg(k), Prop(node, k)>> : k \in Range(ObjectKeys(node))}

RECURSIVE renderNode(_, _, _)
\* renderNode entering the rows of a child whatever the child's caret shows
renderNode_ClosedEntered(node, segs, open) ==
  IF ~isExpandable(node) THEN {}
  ELSE UNION {(IF isExpandable(c[2]) /\ pointerFromSegments(Append(segs, c[1])) \in open
                 THEN {Append(segs, c[1])} ELSE {})
              \cup renderNode(c[2], Append(segs, c[1]), open) : c \in Children(node)}

\* FormViewer.renderNode with expanded = open: the paths of the rows under
\* node that are displayed open, i.e. followed by the rows of their children
renderNode(node, segs, open) ==
  IF ~isExpandable(node) THEN {}
  ELSE UNION {IF isExpandable(c[2]) /\ pointerFromSegments(Append(segs, c[1])) \in open
                THEN {Append(segs, c[1])} \cup renderNode(c[2], Append(segs, c[1]), open)
                ELSE {} : c \in Children(node)}

\* the nodes FormViewer displays open, the root row included
DisplayedOpen(value, open) ==
  IF rootPointer \in open THEN {<<>>} \cup renderNode(value, <<>>, open) ELSE {}

Last(op, segs) == [op |-> op, segs |-> segs]

\* window.localStorage.getItem(LS_JSON_KEY): null, or the text of the slot
NoItem == [present |-> FALSE, text |-> <<>>]
Item(text) == [present |-> TRUE, text |-> text]

\* what an earlier session can have left in the slot
StartStored == {NoItem, Item(<<>>), Item(Text_Nested), Item(Text_Broken)}

\* compressToEncodedURIComponent(text): the token is one opaque character
RECURSIVE Spell(_)
Spell(text) == IF text = <<>> THEN "" ELSE Head(text) \o Spell(Tail(text))
compressToEncodedURIComponent(text) == <<"<lz:" \o Spell(text) \o ">">>

\* the texts whose tokens a share link of the model holds
SharedTexts == {<<>>, Text_EmptyKey}

NoText == [present |-> FALSE, text |-> <<>>]
SomeText(text) == [present |-> TRUE, text |-> text]

\* decompressFromEncodedURIComponent(payload): the text of a token, null for
\* the empty payload and for a payload that is no token
decompressFromEncodedURIComponent(payload) ==
  IF \E text \in SharedTexts : compressToEncodedURIComponent(text) = payload
    THEN SomeText(CHOOSE text \in SharedTexts : compressToEncodedURIComponent(text) = payload)
    ELSE NoText

HASH_PREFIX == <<"j", "=">>

\* window.location.hash at the start of a session: none, a share link of
\* the empty text and of a document, a payload that is no token, no payload,
\* another fragment
StartHashes ==
  {<<>>,
   <<"#">> \o HASH_PREFIX \o compressToEncodedURIComponent(<<>>),
   <<"#">> \o HASH_PREFIX \o compressToEncodedURIComponent(Text_EmptyKey),
   <<"#">> \o HASH_PREFIX \o <<"x">>,
   <<"#">> \o HASH_PREFIX,
   <<"#", "t", "o", "p">>}

Init ==
  /\ raw = Text_Placeholder
  /\ storage \in StartStored
  /\ mounted = FALSE
  /\ load = <<>>
  /\ autoFormat = TRUE
  /\ parsed = safeJsonParse(Text_Placeholder)
  /\ viewMode = "tree"
  /\ search = <<>>
  /\ matches = <<>>
  /\ toast = ""
  /\ expanded = {rootPointer}
  /\ selected = <<>>
  /\ last = Last("init", <<>>)
  /\ call = [fn |-> "none"]

\* FormViewer's state after a change of what Page renders: kept while the
\* component stays mounted, the useState initial values otherwise
FormStateAfter(p, mode) ==
  IF FormMounted(parsed, viewMode) /\ FormMounted(p, mode)
    THEN UNCHANGED <<expanded, selected>>
    ELSE expanded' = {rootPointer} /\ selected' = <<>>

\* setRaw(text) and what follows from it: the Persist JSON effect, the
\* parsed and matches memos, FormViewer's state
\* a render whose Persist JSON effect writes the raw of the render before
Rerender_PersistsStale(text, res) ==
  /\ raw' = text
  /\ storage' = Item(raw)
  /\ parsed' = res
  /\ matches' = PageMatches(res, search)
  /\ FormStateAfter(res, viewMode)

\* a render that keeps the last value that parsed when the text does not
Rerender_KeepLastGood(text, res) ==
  /\ raw' = text
  /\ storage' = Item(text)
  /\ parsed' = IF res.ok THEN res ELSE parsed
  /\ matches' = PageMatches(IF res.ok THEN res ELSE parsed, search)
  /\ FormStateAfter(IF res.ok THEN res ELSE parsed, viewMode)

Rerender(text, res) ==
  /\ raw' = text
  /\ storage' = Item(text)
  /\ parsed' = res
  /\ matches' = PageMatches(res, search)
  /\ FormStateAfter(res, viewMode)

SetRawTo(text) == Rerender(text, safeJsonParse(text))

\* the hash without its leading "#"
HashText(hash) == IF At(hash, 1) = "#" THEN Tail(hash) ELSE hash

\* the Load JSON effect: the text it passes to setRaw, if any
LoadedAtStart(hash, saved) ==
  LET h == HashText(hash)
      payload == SubSeq(h, Len(HASH_PREFIX) + 1, Len(h))
      decompressed == decompressFromEncodedURIComponent(payload)
  IN IF StartsAt(h, 1, HASH_PREFIX) /\ decompressed.present /\ decompressed.text # <<>>
       THEN SomeText(decompressed.text)
     ELSE IF saved.present /\ saved.text # <<>> THEN SomeText(saved.text)
     ELSE NoText

\* the Gentle auto-format effect on the raw it sees: the text it passes to
\* setRaw, if any
Differing(pretty, seen) == IF pretty # seen THEN SomeText(pretty) ELSE NoText

AutoFormattedFrom(enabled, seen, res) ==
  IF ~enabled \/ ~res.ok THEN NoText
  ELSE IF includes(seen, <<"\n">>) /\ includes(seen, <<" ", " ">>) THEN NoText
  ELSE Differing(stringify(res.value, FormatGap, 0), seen)

AutoFormatted(enabled, seen) == AutoFormattedFrom(enabled, seen, safeJsonParse(seen))

\* the text of the first of two optional texts that is present, else text
FirstOf(first, second, text) ==
  IF first.present THEN first.text ELSE IF second.present THEN second.text ELSE text

\* the effects of the first render, in the order they are declared, each
\* seeing the initial raw: Load JSON, Persist JSON, auto-format; then the
\* render with the raw they set and its Persist JSON effect
Mount(hash) ==
  /\ ~mounted
  /\ mounted' = TRUE
  /\ SetRawTo(FirstOf(AutoFormatted(autoFormat, raw), LoadedAtStart(hash, storage), raw))
  /\ last' = [op |-> "mount", segs |-> <<>>, hash |-> hash, saved |-> storage]
  /\ UNCHANGED <<load, autoFormat, viewMode, search, toast, call>>

\* textarea onChange: setRaw(e.target.value)
SetRaw(text) ==
  /\ mounted
  /\ text # raw
  /\ SetRawTo(text)
  /\ last' = Last("setRaw", <<>>)
  /\ UNCHANGED <<mounted, load, autoFormat, viewMode, search, toast, call>>

\* the View select's onChange
SetViewMode(mode) ==
  /\ mounted
  /\ mode # viewMode
  /\ viewMode' = mode
  /\ FormStateAfter(parsed, mode)
  /\ last' = Last("setViewMode", <<>>)
  /\ UNCHANGED <<docVars, parsed, search, matches, toast, call>>

\* the Search input's onChange and the Clear button
SetSearch(query) ==
  /\ mounted
  /\ query # search
  /\ search' = query
  /\ matches' = PageMatches(parsed, query)
  /\ last' = Last("setSearch", <<>>)
  /\ UNCHANGED <<docVars, parsed, viewMode, toast, expanded, selected, call>>

\* the Copy path button of a listed match: showToast('Path copied')
CopyPath ==
  /\ mounted
  /\ Len(trim(search)) >= 2 /\ parsed.ok
  /\ matches # <<>>
  /\ toast' = "Path copied"
  /\ last' = Last("copyPath", <<>>)
  /\ UNCHANGED <<docVars, parsed, viewMode, search, matches, expanded, selected, call>>

\* the timer of showToast: setToast('')
ToastTimeout ==
  /\ toast # ""
  /\ toast' = ""
  /\ UNCHANGED <<docVars, parsed, viewMode, search, matches, expanded, selected, last, call>>

\* FormViewer.toggle, from the root caret or the caret / value button of a
\* rendered expandable row
Toggle(segs) ==
  /\ mounted
  /\ FormMounted(parsed, viewMode)
  /\ \/ segs = <<>>
     \/ Rendered(segs) /\ isExpandable(NodeAt(ValueOrEmpty(parsed), segs))
  /\ expanded' = toggleSet(expanded, segs)
  /\ last' = Last("toggle", segs)
  /\ UNCHANGED <<docVars, parsed, viewMode, search, matches, toast, selected, call>>

\* FormViewer.onSelect, from the key button of a rendered row or a breadcrumb
Select(segs) ==
  /\ mounted
  /\ FormMounted(parsed, viewMode)
  /\ Rendered(segs) \/ segs \in Prefixes(selected)
  /\ selected' = segs
  /\ expanded' = ensureOpenSet(expanded, segs)
  /\ last' = Last("select", segs)
  /\ UNCHANGED <<docVars, parsed, viewMode, search, matches, toast, call>>

\* FormViewer.expandAll
ExpandAll ==
  /\ mounted
  /\ FormMounted(parsed, viewMode)
  /\ LET r == expandAllWith(ValueOrEmpty(parsed), ExpandAllLimit)
     IN /\ expanded' = r.expanded
        /\ toast' = IF r.capped THEN CappedToast ELSE toast
  /\ last' = Last("expandAll", <<>>)
  /\ UNCHANGED <<docVars, parsed, viewMode, search, matches, selected, call>>

\* FormViewer.collapseAll
CollapseAll ==
  /\ mounted
  /\ FormMounted(parsed, viewMode)
  /\ expanded' = {rootPointer}
  /\ last' = Last("collapseAll", <<>>)
  /\ UNCHANGED <<docVars, parsed, viewMode, search, matches, toast, selected, call>>

\* every path a session can hand to toggle or onSelect
SessionPaths == UNION {NodePaths(ValueOrEmpty(p)) : p \in SessionParsed}

Next ==
  \/ \E hash \in StartHashes : Mount(hash)
  \/ \E text \in SessionTexts : SetRaw(text)
  \/ \E mode \in ViewModes : SetViewMode(mode)
  \/ \E query \in SessionQueries : SetSearch(query)
  \/ CopyPath
  \/ ToastTimeout
  \/ \E segs \in SessionPaths : Toggle(segs)
  \/ \E segs \in SessionPaths : Select(segs)
  \/ ExpandAll
  \/ CollapseAll

Spec == Init /\ [][Next]_vars

---------------------------------------------------------------------------
(* The document of a session: the toolbar's handlers that read and write   *)
(* raw                                                                     *)

\* the most loads waiting for their response
MaxInFlight == 1

\* the texts typed, uploaded and served in the sessions of this part
DocTexts == SessionTexts \cup {Text_Numbers, Text_TrailingComma, Text_Overflow}

\* showToast(`Invalid JSON: ${res.error}`)
InvalidToast(res) == "Invalid JSON: at " \o ToString(res.error)

\* doFormat and doMinify after the call of formatJson or minifyJson, whose
\* result is res: the toast of a failure, or setRaw and the toast done
WriteResult(res, op, done) ==
  /\ IF ~res.ok
       THEN /\ toast' = InvalidToast(res)
            /\ UNCHANGED <<raw, storage, parsed, matches, expanded, selected>>
       ELSE /\ SetRawTo(res.value)
            /\ toast' = done
  /\ last' = Last(op, <<>>)
  /\ UNCHANGED <<mounted, load, autoFormat, viewMode, search, call>>

\* Page.doFormat
DoFormat == mounted /\ WriteResult(formatJson(raw), "doFormat", "Formatted")

\* Page.doMinify
DoMinify == mounted /\ WriteResult(minifyJson(raw), "doMinify", "Minified")

\* Page.onUpload with a file whose text is read
Upload(text) ==
  /\ mounted
  /\ SetRawTo(text)
  /\ toast' = "Loaded file"
  /\ last' = Last("onUpload", <<>>)
  /\ UNCHANGED <<mounted, load, autoFormat, viewMode, search, call>>

\* the Auto-format checkbox's onChange and the Gentle auto-format effect
\* that follows it
SetAutoFormat(checked) ==
  /\ mounted
  /\ checked # autoFormat
  /\ autoFormat' = checked
  /\ SetRawTo(FirstOf(AutoFormatted(checked, raw), NoText, raw))
  /\ last' = Last("setAutoFormat", <<>>)
  /\ UNCHANGED <<mounted, load, viewMode, search, toast, call>>

\* Page.copyShareLink; granted: navigator.clipboard.writeText resolves
CopyShareLink(granted) ==
  /\ mounted
  /\ toast' = IF granted THEN "Share link copied" ELSE toast
  /\ last' = [op |-> "copyShareLink", segs |-> <<>>, granted |-> granted,
              hash |-> HASH_PREFIX \o compressToEncodedURIComponent(raw)]
  /\ UNCHANGED <<docVars, parsed, viewMode, search, matches, expanded, selected, call>>

\* what the page's fetch of /api/fetch meets: the fetch throws, the
\* response is not JSON (r.json() throws), or the route answers for what
\* its upstream does
FetchThrows(hasMessage, message) ==
  [kind |-> "fetchThrows", hasMessage |-> hasMessage, message |-> message,
   upstream |-> TransportFailure(FALSE, "")]
NotJson(message) ==
  [kind |-> "notJson", hasMessage |-> TRUE, message |-> message,
   upstream |-> TransportFailure(FALSE, "")]
Route(upstream) ==
  [kind |-> "route", hasMessage |-> FALSE, message |-> "", upstream |-> upstream]

\* the end of loadFromUrl: setRaw is called with text or not, and the toast
Loaded(text) == [write |-> TRUE, text |-> text, toast |-> "Loaded URL"]
LoadFailed(message) == [write |-> FALSE, text |-> <<>>, toast |-> message]

\* the end of loadFromUrl for a response r of the route, with r.ok not
\* looked at
Answered_OkIgnored(r) ==
  IF ~StatusOk(r.status) THEN Loaded(<<>>) ELSE Loaded(r.body.text.text)

\* the end of loadFromUrl for a response r of the route
Answered(r) ==
  IF ~StatusOk(r.status) THEN LoadFailed(r.body.error) ELSE Loaded(r.body.text.text)

\* loadFromUrl after the fetch, with r.ok not looked at
loadFromUrl_OkIgnored(url, world) ==
  IF world.kind # "route"
    THEN LoadFailed(IF world.hasMessage THEN world.message ELSE "Failed")
  ELSE Answered_OkIgnored(GET(Param(url), world.upstream))

\* loadFromUrl after the fetch of /api/fetch?url=<url>: the route reads the
\* url the page encoded
loadFromUrl(url, world) ==
  IF world.kind # "route"
    THEN LoadFailed(IF world.hasMessage THEN world.message ELSE "Failed")
  ELSE Answered(GET(Param(url), world.upstream))

\* the urls typed into the Load from URL field
DocUrls ==
  {Text_https \o <<":", "/", "/", "a", ".", "b", "/", "x">>,
   <<" ">> \o Text_https \o <<":", "/", "/", "a", " ">>,
   Text_http \o <<":", "/", "/", "a">>,
   <<"a", ".", "b", "/", "c">>,
   <<" ", " ">>}

\* what the fetches of a session meet; a body that is served is held whole
DocWorlds ==
  {FetchThrows(TRUE, "Failed to fetch"), FetchThrows(FALSE, ""),
   NotJson("Unexpected token <"),
   Route(TransportFailure(TRUE, "fetch failed")),
   Route(Answer(20, 200, FALSE, 5, Body(Text_Nested, 0))),
   Route(Answer(20, 200, FALSE, 5, Body(Text_Broken, 0))),
   Route(Answer(20, 200, FALSE, 5, Body(<<>>, 0))),
   Route(Answer(20, 404, FALSE, 5, Body(Text_Nested, 0))),
   Route(Answer(10001, 200, FALSE, 5, Body(Text_Nested, 0))),
   Route(Answer(20, 200, TRUE, 5, Body(Text_Nested, 0))),
   Route(Answer(20, 200, FALSE, 5, Body(<<>>, 2000001)))}

\* a call of loadFromUrl that awaits its response, and one whose setRaw(text)
\* has run while a call made before it still waits
Pending(url) == [url |-> url, pending |-> TRUE, text |-> <<>>]
Done(url, text) == [url |-> url, pending |-> FALSE, text |-> text]

\* the calls that wait
InFlight(calls) == {i \in DOMAIN calls : calls[i].pending}

RECURSIVE DropDone(_)
\* the calls from the first one that waits on
DropDone(calls) ==
  IF calls = <<>> \/ Head(calls).pending THEN calls ELSE DropDone(Tail(calls))

\* the calls without the i-th
Without(calls, i) == SubSeq(calls, 1, i - 1) \o SubSeq(calls, i + 1, Len(calls))

\* Page.loadFromUrl up to its await, with urlToLoad = url, while fewer than
\* most calls are kept
LoadFromUrl(url, most) ==
  /\ mounted
  /\ trim(url) # <<>>
  /\ Len(load) < most
  /\ load' = Append(load, Pending(trim(url)))
  /\ toast' = "Loading..."
  /\ last' = Last("loadFromUrl", <<>>)
  /\ UNCHANGED <<raw, storage, mounted, autoFormat, parsed, viewMode, search, matches,
                 expanded, selected, call>>

\* the end of the i-th call of loadFromUrl: res says whether setRaw is
\* called, and the toast
LoadEnds(res, world, i) ==
  /\ toast' = res.toast
  /\ IF res.write
       THEN /\ SetRawTo(res.text)
            /\ load' = DropDone([load EXCEPT ![i] = Done(load[i].url, res.text)])
            /\ last' = [op |-> "loaded", segs |-> <<>>, world |-> world, url |-> load[i].url]
       ELSE /\ load' = DropDone(Without(load, i))
            /\ last' = [op |-> "loadFailed", segs |-> <<>>, world |-> world, url |-> load[i].url]
            /\ UNCHANGED <<raw, storage, parsed, matches, expanded, selected>>

\* Page.loadFromUrl from its await on, for the i-th call
LoadResponds(i, world) ==
  /\ i \in InFlight(load)
  /\ LoadEnds(loadFromUrl(load[i].url, world), world, i)
  /\ UNCHANGED <<mounted, autoFormat, viewMode, search, call>>

NextDoc ==
  \/ \E hash \in StartHashes : Mount(hash)
  \/ \E text \in DocTexts : SetRaw(text)
  \/ DoFormat
  \/ DoMinify
  \/ \E text \in DocTexts : Upload(text)
  \/ \E checked \in BOOLEAN : SetAutoFormat(checked)
  \/ \E granted \in BOOLEAN : CopyShareLink(granted)
  \/ \E url \in DocUrls : LoadFromUrl(url, MaxInFlight)
  \/ \E i \in DOMAIN load, world \in DocWorlds : LoadResponds(i, world)
  \/ ToastTimeout

SpecDoc == Init /\ [][NextDoc]_vars

---------------------------------------------------------------------------
(* Loads from URL that overlap *)

\* the most loads waiting for their response at once
MaxRacing == 2

\* the urls of the loads
RacingUrls ==
  {Text_https \o <<":", "/", "/", "a", ".", "b", "/", "x">>,
   Text_https \o <<":", "/", "/", "a", ".", "b", "/", "y">>}

\* what their fetches meet: two documents served, and a refusal
RacingWorlds ==
  {Route(Answer(20, 200, FALSE, 5, Body(Text_Nested, 0))),
   Route(Answer(20, 200, FALSE, 5, Body(Text_EmptyKey, 0))),
   Route(Answer(20, 404, FALSE, 5, Body(Text_Nested, 0)))}

NextLoads ==
  \/ \E hash \in StartHashes : Mount(hash)
  \/ \E url \in RacingUrls : LoadFromUrl(url, MaxRacing)
  \/ \E i \in DOMAIN load, world \in RacingWorlds : LoadResponds(i, world)
  \/ ToastTimeout

SpecLoads == Init /\ [][NextLoads]_vars

---------------------------------------------------------------------------
(* Direct calls of the pure functions, on inputs drawn from bounded sets:  *)
(* one call per behaviour, made from the initial state                    *)

\* segments: keys that are empty, made of digits, plain, or need escaping,
\* and indices
CallSegs ==
  {KeySeg(<<>>), KeySeg(<<"0">>), KeySeg(<<"1","0">>), KeySeg(<<"a">>),
   KeySeg(<<"/">>), KeySeg(<<"%","2","F">>), IdxSeg(0), IdxSeg(10)}

SeqsUpTo(S, n) == UNION {[1..m -> S] : m \in 0..n}

CallPaths == SeqsUpTo(CallSegs, MaxPathLen)

---------------------------------------------------------------------------
(* collapseKeysEverywhere (src/app/page.tsx) *)

Text_meta == <<"m","e","t","a">>
Text_preview == <<"p","r","e","v","i","e","w">>
Text_value == <<"v","a","l","u","e">>
Text_proto == <<"_","_","p","r","o","t","o","_","_">>

\* out[k] = v on an object made by `{}`.  "__proto__" is the accessor that
\* such an object inherits from Object.prototype: the assignment calls its
\* setter, which replaces the prototype of out (v an object or null) or does
\* nothing (v a primitive), and gives out no own property.
SetProp(out, k, v) ==
  IF k = Text_proto THEN out
  ELSE IF k \in Range(out.keys)
    THEN [out EXCEPT !.items[CHOOSE i \in DOMAIN out.keys : out.keys[i] = k] = v]
  ELSE JObj(Append(out.keys, k), Append(out.items, v))

\* v && typeof v === 'object' && !Array.isArray(v) ? Object.keys(v).length : 0
keyCount(v) == IF v.t = "obj" THEN Len(ObjectKeys(v)) ELSE 0

\* collapseKeysEverywhere.wrap
wrap(k, v) ==
  JObj(<<Text_preview, Text_value>>,
       <<JStr(k \o <<" ", "(">> \o NatToStr(keyCount(v)) \o <<" ","k","e","y","s",")">>), v>>)

RECURSIVE collapseVisit(_, _), collapseEntries(_, _, _, _, _)
\* collapseKeysEverywhere.visit
collapseVisit(node, keysToCollapse) ==
  IF node.t = "null" THEN node
  ELSE IF isArray(node)
    THEN JArr([i \in DOMAIN node.items |-> collapseVisit(node.items[i], keysToCollapse)])
  ELSE IF node.t # "obj" THEN node
  ELSE collapseEntries(node, ObjectKeys(node), 1, JObj(<<>>, <<>>), keysToCollapse)

\* for (const [k, v] of Object.entries(node)) { out[k] = ... }, from the
\* j-th entry on
collapseEntries(node, ks, j, out, keysToCollapse) ==
  IF j > Len(ks) THEN out
  ELSE collapseEntries(node, ks, j + 1,
         SetProp(out, ks[j],
                 IF ks[j] \in keysToCollapse /\ Prop(node, ks[j]).t \in {"obj", "arr"}
                   THEN wrap(ks[j], collapseVisit(Prop(node, ks[j]), keysToCollapse))
                   ELSE collapseVisit(Prop(node, ks[j]), keysToCollapse)),
         keysToCollapse)

collapseKeysEverywhere(root, keysToCollapse) == collapseVisit(root, keysToCollapse)

---------------------------------------------------------------------------
GenKeys == {<<"B","o","b">>, <<>>, <<"0">>}

\* null, "boB", [], {"b": [10]}
GenChildren ==
  {JNull, JStr(<<"b","o","B">>), JArr(<<>>),
   JObj(<< <<"b">> >>, << JArr(<<JNum(10)>>) >>)}

\* sequences of distinct keys, in every insertion order
KeySeqs(n) == {ks \in [1..n -> GenKeys] : \A i, j \in 1..n : i # j => ks[i] # ks[j]}

\* every array and object of at most MaxWidth children
GenDocs ==
  {JArr(xs) : xs \in SeqsUpTo(GenChildren, MaxWidth)}
  \cup UNION {{JObj(ks, xs) : ks \in KeySeqs(n), xs \in [1..n -> GenChildren]} : n \in 0..MaxWidth}

\* {"b": {}, "10": {"9": [], "x": []}, "9": {}}
IndexKeysDoc ==
  JObj(<< <<"b">>, <<"1","0">>, <<"9">> >>,
       << JObj(<<>>, <<>>),
          JObj(<< <<"x">>, <<"9">> >>, << JArr(<<>>), JArr(<<>>) >>),
          JObj(<<>>, <<>>) >>)

\* [true, false, null, [[[]]]]
LeavesDoc ==
  JArr(<<JBool(TRUE), JBool(FALSE), JNull, JArr(<<JArr(<<JArr(<<>>)>>)>>)>>)

\* {"a b": {"x\"y": 1, "": "Bob"}}
OddKeysDoc ==
  JObj(<< <<"a"," ","b">> >>,
       << JObj(<< <<"x","\"","y">>, <<>> >>, << JNum(1), JStr(<<"B","o","b">>) >>) >>)

CuratedDocs ==
  {PlaceholderDoc, ExampleDoc, NestedDoc, EmptyKeyDoc, IndexKeysDoc, LeavesDoc,
   OddKeysDoc, JNull, JStr(Text_bob)}

\* {"kkk...k" (161): "vvv...v" (161), "k": "vvv...v" (160)}
LongDoc ==
  JObj(<< Rep("k", PreviewMax + 1), <<"k">> >>,
       << JStr(Rep("v", PreviewMax + 1)), JStr(Rep("v", PreviewMax)) >>)

CallDocs == GenDocs \cup CuratedDocs

CallQueries ==
  {<<>>, <<" ">>, <<"b">>, <<" ","B","O"," ">>, <<"1">>, <<"t","r","u","e">>,
   <<"n","u","l","l">>, <<"k">>, <<"v">>, Text_bob}

\* texts over a small alphabet, and the texts above
GenChars == {"[", "]", ",", "1", "e", "\"", " "}
GenTexts == SeqsUpTo(GenChars, MaxTextLen)
CuratedTexts ==
  {Text_Placeholder, Text_Nested, Text_EmptyKey, Text_Broken, Text_Overflow,
   Text_OverflowInside, Text_Numbers, Text_IndexKeys, Text_RepeatedKey, Text_Escapes,
   Text_FormFeed, Text_TrailingComma}
CallTexts == GenTexts \cup CuratedTexts

CallSafeJsonParse(text) ==
  /\ call' = [fn |-> "safeJsonParse", text |-> text, ret |-> safeJsonParse(text)]
  /\ UNCHANGED <<docVars, parsed, viewMode, search, matches, toast, expanded, selected, last>>

CallFormatJson(text) ==
  /\ call' = [fn |-> "formatJson", text |-> text, ret |-> formatJson(text)]
  /\ UNCHANGED <<docVars, parsed, viewMode, search, matches, toast, expanded, selected, last>>

CallMinifyJson(text) ==
  /\ call' = [fn |-> "minifyJson", text |-> text, ret |-> minifyJson(text)]
  /\ UNCHANGED <<docVars, parsed, viewMode, search, matches, toast, expanded, selected, last>>

\* requests to the proxy: no url, an empty one, https in either case, other
\* schemes, texts that are no absolute URL
ProxyUrls ==
  {NoParam, Param(<<>>),
   Param(Text_https \o <<":", "/", "/", "a", ".", "b", "/", "x">>),
   Param(<<"H", "T", "T", "P", "S", ":", "/", "/", "a">>),
   Param(<<" ">> \o Text_https \o <<":", "a", " ">>),
   Param(Text_http \o <<":", "/", "/", "a">>),
   Param(<<"f", "t", "p", ":", "/", "/", "a">>),
   Param(<<"d", "a", "t", "a", ":", ",", "x">>),
   Param(Text_https \o <<":", "/", "/">>),
   Param(<<"a", ".", "b", "/", "c">>),
   Param(<<"/", "x">>)}

\* bodies of 0, 17, 2,000,000 and 2,000,001 characters
UpstreamBodies ==
  {Body(<<>>, 0), Body(Text_Nested, 0), Body(<<"x">>, 1999999), Body(<<"x">>, 2000000),
   Body(<<>>, 2000001)}

\* what the upstream can do: fail in transport, or answer before or after
\* the timeout, with or without success, the body read or not in time
Upstreams ==
  {TransportFailure(TRUE, "fetch failed"), TransportFailure(FALSE, "")}
  \cup {Answer(h, st, bf, b, body) :
          h \in {20, 10001}, st \in {200, 204, 299, 300, 404, 500}, bf \in BOOLEAN,
          b \in {5, 9990}, body \in UpstreamBodies}

CallGET(url, upstream) ==
  /\ call' = [fn |-> "GET", url |-> url, upstream |-> upstream, ret |-> GET(url, upstream)]
  /\ UNCHANGED <<docVars, parsed, viewMode, search, matches, toast, expanded, selected, last>>

\* keys that are identifiers, hold a dot, a backslash, quotes and brackets,
\* start with a digit or are empty, and an index
PathSegs ==
  {KeySeg(<<"a">>), KeySeg(<<"b">>), KeySeg(<<"a", ".", "b">>), KeySeg(<<"\\">>),
   KeySeg(<<"\"">>), KeySeg(<<"\"", "]", "[">>), KeySeg(<<"]", "[">>), KeySeg(<<"0">>),
   KeySeg(<<>>), IdxSeg(0)}

MatchPaths == SeqsUpTo(PathSegs, MaxPathLen)

CallMatchPath(segs) ==
  /\ call' = [fn |-> "matchPath", segs |-> segs, ret |-> matchPath(segs)]
  /\ UNCHANGED <<docVars, parsed, viewMode, search, matches, toast, expanded, selected, last>>

\* {"meta": {"a": 1, "meta": [{"meta": {}}]}, "list": [{"meta": {"x": null}}, "meta"],
\*  "10": {"meta": null}, "metaX": {"meta": 1}}
MetaDoc ==
  JObj(<< Text_meta, <<"l","i","s","t">>, <<"1","0">>, <<"m","e","t","a","X">> >>,
       << JObj(<< <<"a">>, Text_meta >>,
               << JNum(1), JArr(<< JObj(<<Text_meta>>, <<JObj(<<>>, <<>>)>>) >>) >>),
          JArr(<< JObj(<<Text_meta>>, <<JObj(<< <<"x">> >>, <<JNull>>)>>), JStr(Text_meta) >>),
          JObj(<<Text_meta>>, <<JNull>>),
          JObj(<<Text_meta>>, <<JNum(1)>>) >>)

\* {"a": 1, "__proto__": {"meta": {}}, "meta": {"__proto__": 1}}
ProtoDoc ==
  JObj(<< <<"a">>, Text_proto, Text_meta >>,
       << JNum(1), JObj(<<Text_meta>>, <<JObj(<<>>, <<>>)>>), JObj(<<Text_proto>>, <<JNum(1)>>) >>)

CollapseDocs == CallDocs \cup {MetaDoc, ProtoDoc}

\* the page's new Set(['meta']), no key, and keys of the generated documents
CollapseKeys == {{Text_meta}, {}, {Text_meta, <<"B","o","b">>, <<"0">>, <<"b">>}}

CallCollapseKeysEverywhere(root, keysToCollapse) ==
  /\ call' = [fn |-> "collapseKeysEverywhere", root |-> root, keys |-> keysToCollapse,
              ret |-> collapseKeysEverywhere(root, keysToCollapse)]
  /\ UNCHANGED <<docVars, parsed, viewMode, search, matches, toast, expanded, selected, last>>

CallPointerFromSegments(segs) ==
  /\ call' = [fn |-> "pointerFromSegments", segs |-> segs, ret |-> pointerFromSegments(segs)]
  /\ UNCHANGED <<docVars, parsed, viewMode, search, matches, toast, expanded, selected, last>>

CallCollectExpandablePointers(root, limit) ==
  /\ call' = [fn |-> "collectExpandablePointers", root |-> root, limit |-> limit,
              ret |-> collectExpandablePointers(root, limit)]
  /\ UNCHANGED <<docVars, parsed, viewMode, search, matches, toast, expanded, selected, last>>

CallExpandAll(value, limit) ==
  /\ call' = [fn |-> "expandAll", root |-> value, limit |-> limit,
              ret |-> expandAllWith(value, limit)]
  /\ UNCHANGED <<docVars, parsed, viewMode, search, matches, toast, expanded, selected, last>>

CallFindMatches(root, query, maxMatches) ==
  /\ call' = [fn |-> "findMatches", root |-> root, query |-> query, maxMatches |-> maxMatches,
              ret |-> findMatches(root, query, maxMatches),
              run |-> findMatchesRun(root, query, maxMatches)]
  /\ UNCHANGED <<docVars, parsed, viewMode, search, matches, toast, expanded, selected, last>>

\* no call has been made yet
Idle == call.fn = "none"

NextCalls ==
  \/ Idle /\ \E segs \in CallPaths : CallPointerFromSegments(segs)
  \/ Idle /\ \E root \in CallDocs, limit \in 0..MaxLimit :
               CallCollectExpandablePointers(root, limit)
  \/ Idle /\ \E value \in CallDocs, limit \in 0..MaxLimit : CallExpandAll(value, limit)
  \/ Idle /\ \E root \in CallDocs \cup {LongDoc}, query \in CallQueries,
                maxMatches \in 0..MaxCap :
               CallFindMatches(root, query, maxMatches)
  \/ Idle /\ \E text \in CallTexts : CallSafeJsonParse(text)
  \/ Idle /\ \E text \in CallTexts : CallFormatJson(text)
  \/ Idle /\ \E text \in CallTexts : CallMinifyJson(text)
  \/ Idle /\ \E url \in ProxyUrls, upstream \in Upstreams : CallGET(url, upstream)
  \/ Idle /\ \E segs \in MatchPaths : CallMatchPath(segs)
  \/ Idle /\ \E root \in CollapseDocs, keysToCollapse \in CollapseKeys :
               CallCollapseKeysEverywhere(root, keysToCollapse)

\* the calls are made with an empty slot
InitCalls == Init /\ storage = NoItem

SpecCalls == InitCalls /\ [][NextCalls]_vars

---------------------------------------------------------------------------
(* Claims *)

\* the paths of the container nodes (arrays and objects) of v
ContainerPaths(v) == {p \in NodePaths(v) : NodeAt(v, p).t \in {"arr", "obj"}}

\* the paths of the leaves (strings, numbers, booleans, null) of v
LeafPaths(v) == NodePaths(v) \ ContainerPaths(v)

RECURSIVE ConcatAll(_)
ConcatAll(ss) == IF ss = <<>> THEN <<>> ELSE Head(ss) \o ConcatAll(Tail(ss))

\* the keys of an object as inserted, or as Object.keys lists them
KeysIn(v, asObjectKeys) == IF asObjectKeys THEN ObjectKeys(v) ELSE v.keys

RECURSIVE PreOrderPaths(_, _)
\* the paths of the nodes of v in depth-first pre-order: a node before its
\* children, array elements in index order, object keys in insertion order
\* (or, with asObjectKeys, in the order of Object.keys)
PreOrderPaths(v, asObjectKeys) ==
  << <<>> >> \o
  ConcatAll([i \in DOMAIN v.items |->
     LET seg == IF v.t = "arr" THEN IdxSeg(i - 1) ELSE KeySeg(KeysIn(v, asObjectKeys)[i])
         sub == PreOrderPaths(NodeAt(v, <<seg>>), asObjectKeys)
     IN [j \in DOMAIN sub |-> <<seg>> \o sub[j]]])

\* c and d are the same character up to letter case
SameLetter(c, d) ==
  c = d \/ \E k \in DOMAIN UpperChars : {c, d} = {UpperChars[k], LowerChars[k]}

\* s contains q, letter case ignored
ContainsIgnoringCase(s, q) ==
  \E i \in 0..(Len(s) - Len(q)) : \A j \in 1..Len(q) : SameLetter(s[i + j], q[j])

RECURSIVE PathText(_)
\* the path string findMatches gives the node at a path
PathText(segs) ==
  IF segs = <<>> THEN <<>>
  ELSE pathJoin(PathText(SubSeq(segs, 1, Len(segs) - 1)), segs[Len(segs)])

\* the node at path p is an object member whose key contains q
KeyHit(root, p, q) ==
  p # <<>> /\ ~p[Len(p)].num /\ ContainsIgnoringCase(p[Len(p)].s, q)

\* the node at path p is a string, number or boolean whose text contains q
ValueHit(root, p, q) ==
  /\ NodeAt(root, p).t \in {"str", "num", "bool"}
  /\ ContainsIgnoringCase(LeafText(NodeAt(root, p)), q)

\* a text cut to 160 characters, with the ellipsis when it was longer
Cut160(t) == IF Len(t) > 160 THEN SubSeq(t, 1, 160) \o <<Ellipsis>> ELSE t

\* the matches of the node at p: its key's match, then its value's
HitsAt(root, p, q) ==
  (IF KeyHit(root, p, q) THEN <<Match(PathText(p), "key", p[Len(p)].s)>> ELSE <<>>)
  \o (IF ValueHit(root, p, q)
        THEN <<Match(PathText(p), "value", Cut160(LeafText(NodeAt(root, p))))>>
        ELSE <<>>)

\* all matches of q in root, in depth-first pre-order
AllHits(root, q, asObjectKeys) ==
  LET ps == PreOrderPaths(root, asObjectKeys)
  IN ConcatAll([i \in DOMAIN ps |-> HitsAt(root, ps[i], q)])

\* a sequence as a bag
SeqBag(xs) == [m \in Range(xs) |-> Cardinality({i \in DOMAIN xs : xs[i] = m})]

Min(a, b) == IF a < b THEN a ELSE b

Take(xs, n) == SubSeq(xs, 1, Min(n, Len(xs)))

\* C1: pointerFromSegments is injective over paths (two distinct paths never
\* get the same pointer, whatever their keys: empty, made of digits, ...),
\* and pointerFromSegments([]) is "/".
C1_PointerInjective ==
  call.fn = "pointerFromSegments" =>
    /\ call.segs = <<>> => call.ret = <<"/">>
    /\ \A other \in CallPaths :
         other # call.segs => pointerFromSegments(other) # call.ret

\* C2: after ensureOpen(path) (FormViewer.onSelect), the pointer of every
\* prefix of path - the root, every ancestor, path itself - is in expanded.
C2_AncestorsOpen ==
  last.op = "select" =>
    \A q \in Prefixes(last.segs) : pointerFromSegments(q) \in expanded

\* a node two levels down was selected
C2_Witness ==
  /\ last.op = "select"
  /\ Len(last.segs) = 2
  /\ pointerFromSegments(last.segs) \in expanded

\* C3: the root pointer "/" is in expanded in every reachable state, after
\* any sequence of toggle, ensureOpen, expandAll and collapseAll.
C3_RootAlwaysOpen == <<"/">> \in expanded

\* the root itself was toggled
C3_Witness == last.op = "toggle" /\ last.segs = <<>> /\ <<"/">> \in expanded

\* C4 as claimed: toggle(path) flips the membership of toPointer(path), for
\* every path.
C4_ToggleFlips ==
  [][\A segs \in SessionPaths :
       Toggle(segs) =>
         (pointerFromSegments(segs) \in expanded' <=> pointerFromSegments(segs) \notin expanded)]_vars

\* C4 as amended: toggle(path) flips the membership of toPointer(path) when
\* that pointer is not the root pointer "/"; when it is, it stays a member.
C4_ToggleFlipsBelowRoot ==
  [][\A segs \in SessionPaths :
       Toggle(segs) =>
         LET p == pointerFromSegments(segs)
         IN IF p = <<"/">> THEN p \in expanded'
            ELSE (p \in expanded' <=> p \notin expanded)]_vars

\* a node below the root was toggled and is closed now
C4_Witness ==
  /\ last.op = "toggle"
  /\ pointerFromSegments(last.segs) # <<"/">>
  /\ pointerFromSegments(last.segs) \notin expanded

\* C5: for a document with more than `limit` containers,
\* collectExpandablePointers(value, limit) collects exactly `limit` pointers,
\* expandAll reports truncation, and the root pointer is in the resulting set.
C5_ExpandAllCap ==
  /\ (call.fn = "collectExpandablePointers"
        /\ Cardinality(ContainerPaths(call.root)) > call.limit)
       => Cardinality(call.ret) = call.limit
  /\ (call.fn = "expandAll"
        /\ Cardinality(ContainerPaths(call.root)) > call.limit)
       => /\ call.ret.capped
          /\ <<"/">> \in call.ret.expanded

\* expandAll on a document with more containers than a limit of at least 2
C5_Witness ==
  /\ call.fn = "expandAll"
  /\ call.limit >= 2
  /\ Cardinality(ContainerPaths(call.root)) > call.limit
  /\ call.ret.capped

\* the pointers C6 says collectExpandablePointers returns
C6_Claimed(root, limit) ==
  LET cs == SelectSeq(PreOrderPaths(root, FALSE), LAMBDA p : p \in ContainerPaths(root))
  IN {pointerFromSegments(cs[i]) : i \in 1..Min(limit, Len(cs))}

\* C6: collectExpandablePointers(value, limit) returns exactly the pointers of
\* the first min(limit, number of containers) containers in depth-first
\* pre-order (object keys in insertion order); every container is included
\* when there are at most `limit`; no pointer of a leaf is ever included.
C6_CollectPreOrder ==
  call.fn = "collectExpandablePointers" =>
    /\ call.ret = C6_Claimed(call.root, call.limit)
    /\ Cardinality(ContainerPaths(call.root)) <= call.limit
         => \A p \in ContainerPaths(call.root) : pointerFromSegments(p) \in call.ret
    /\ \A p \in LeafPaths(call.root) : pointerFromSegments(p) \notin call.ret

\* C7: findMatches(value, query, maxMatches) returns exactly the first
\* min(maxMatches, N) entries of the uncapped match sequence, the N matches in
\* depth-first pre-order (object keys in insertion order, array elements in
\* index order, a key's own match before the matches inside its value).
C7_CappedPrefix ==
  (call.fn = "findMatches" /\ trim(call.query) # <<>>) =>
    call.ret = Take(AllHits(call.root, trim(call.query), FALSE), call.maxMatches)

\* what holds in place of C7: the same with object keys in the order of
\* Object.keys (array-index keys ascending, then the others as inserted)
C7_CappedPrefixInObjectKeysOrder ==
  (call.fn = "findMatches" /\ trim(call.query) # <<>>) =>
    call.ret = Take(AllHits(call.root, trim(call.query), TRUE), call.maxMatches)

\* the key and value matches of q in root, as a bag; a value match's preview
\* is left out of the comparison
ScopeBag(root, q) ==
  LET hits == {<<p, "key">> : p \in {x \in NodePaths(root) : KeyHit(root, x, q)}}
              \cup {<<p, "value">> : p \in {x \in NodePaths(root) : ValueHit(root, x, q)}}
      rec(h) == IF h[2] = "key" THEN Match(PathText(h[1]), "key", h[1][Len(h[1])].s)
                ELSE Match(PathText(h[1]), "value", <<>>)
  IN [m \in {rec(h) : h \in hits} |-> Cardinality({h \in hits : rec(h) = m})]

\* the matches findMatches returned, as the same kind of bag
ReturnedBag(ret) ==
  SeqBag([i \in DOMAIN ret |->
            IF ret[i].kind = "key" THEN ret[i] ELSE Match(ret[i].path, "value", <<>>)])

\* {"a": {"bob": 1}, "list": [1, 2, "bob"]} with "bob": a key match at a.bob,
\* a value match at list[2]
ScopeExample ==
  (call.fn = "findMatches" /\ call.root = ExampleDoc /\ call.query = Text_bob
     /\ call.maxMatches >= 2)
    => call.ret = << Match(<<"a", ".", "b", "o", "b">>, "key", Text_bob),
                     Match(<<"l", "i", "s", "t", "[", "2", "]">>, "value", Text_bob) >>

\* C8 as claimed: for a non-empty query q, the cap not reached, findMatches
\* gives a key match (path of the key, preview the raw key) for exactly the
\* object keys that contain q case-insensitively and a value match for exactly
\* the string, number and boolean leaves whose text contains q
\* case-insensitively; null, arrays and objects give no value match.
C8_SearchScope ==
  (call.fn = "findMatches" /\ call.query # <<>> /\ Len(call.ret) < call.maxMatches)
    => ReturnedBag(call.ret) = ScopeBag(call.root, call.query)

\* C8 as amended: the same for a query that is non-empty after trimming, with
\* q the trimmed query.
C8_SearchScopeTrimmed ==
  /\ (call.fn = "findMatches" /\ trim(call.query) # <<>> /\ Len(call.ret) < call.maxMatches)
       => ReturnedBag(call.ret) = ScopeBag(call.root, trim(call.query))
  /\ ScopeExample

\* the example of the claim: both matches returned
C8_Witness ==
  /\ call.fn = "findMatches"
  /\ call.root = ExampleDoc
  /\ call.query = Text_bob
  /\ Len(call.ret) = 2
  /\ Len(call.ret) < call.maxMatches

\* C9: every match, of kind key as well as of kind value, has a preview of at
\* most 160 characters of its source text, followed by one ellipsis exactly
\* when the source text was longer.
C9_PreviewCut ==
  call.fn = "findMatches" =>
    \A i \in DOMAIN call.ret :
      LET m == call.ret[i]
      IN \E p \in NodePaths(call.root) :
           /\ PathText(p) = m.path
           /\ \/ m.kind = "key" /\ p # <<>> /\ ~p[Len(p)].num
                   /\ m.preview = Cut160(p[Len(p)].s)
              \/ m.kind = "value" /\ NodeAt(call.root, p).t \in {"str", "num", "bool"}
                   /\ m.preview = Cut160(LeafText(NodeAt(call.root, p)))

\* C10: Page's matches are empty whenever the trimmed query is shorter than 2
\* characters; the threshold is the caller's: findMatches itself returns the
\* matches of any query that is non-empty after trimming.
C10_ShortQuery ==
  /\ Len(trim(search)) < 2 => matches = <<>>
  /\ (parsed.ok /\ trim(search) # <<>>
        /\ \E p \in NodePaths(ValueOrEmpty(parsed)) :
             \/ KeyHit(ValueOrEmpty(parsed), p, trim(search))
             \/ ValueHit(ValueOrEmpty(parsed), p, trim(search)))
       => findMatches(ValueOrEmpty(parsed), search, PageMaxMatches) # <<>>

\* a one-character query (three characters before trimming) over a document
\* it matches: Page shows nothing, findMatches would return a match
C10_Witness ==
  /\ last.op = "setSearch"
  /\ parsed = Ok(NestedDoc)
  /\ Len(search) >= 2
  /\ Len(trim(search)) = 1
  /\ matches = <<>>
  /\ findMatches(ValueOrEmpty(parsed), search, PageMaxMatches) # <<>>

\* a text of white space only (the empty text included)
IsBlank(text) == \A i \in DOMAIN text : text[i] \in WhiteSpace

\* C18: safeJsonParse of the empty text or of a text of white space only is
\* ok with the value null, never an error; any other text the underlying
\* parser rejects gives ok: false with the parser's message.
C18_ParseBlankOrInvalid ==
  call.fn = "safeJsonParse" =>
    /\ IsBlank(call.text) => call.ret = Ok(JNull)
    /\ (~IsBlank(call.text) /\ ~JSONParse(call.text).ok)
         => /\ ~call.ret.ok
            /\ call.ret.error = JSONParse(call.text).error

\* a text of white space that is not empty was parsed
C18_Witness ==
  /\ call.fn = "safeJsonParse"
  /\ call.text # <<>>
  /\ IsBlank(call.text)
  /\ call.ret.ok

RECURSIVE StructEq(_, _)
\* structural equality of two parsed values: the same kind, the same leaf,
\* the same elements in order, the same keys in Object.keys order with the
\* same values
StructEq(a, b) ==
  /\ a.t = b.t
  /\ a.t \in {"null", "bool", "num", "str"} => a = b
  /\ a.t = "arr" =>
       /\ Len(a.items) = Len(b.items)
       /\ \A i \in DOMAIN a.items : StructEq(a.items[i], b.items[i])
  /\ a.t = "obj" =>
       /\ ObjectKeys(a) = ObjectKeys(b)
       /\ \A k \in Range(a.keys) : StructEq(Prop(a, k), Prop(b, k))

RECURSIVE AllFinite(_)
\* no number of v is an infinity
AllFinite(v) ==
  /\ v.t = "num" => isFiniteNum(v)
  /\ \A i \in DOMAIN v.items : AllFinite(v.items[i])

\* the text formatJson / minifyJson returned parses to what the text parses to
RoundTrips ==
  /\ call.ret.ok
  /\ safeJsonParse(call.ret.value).ok
  /\ StructEq(safeJsonParse(call.ret.value).value, safeJsonParse(call.text).value)

\* C19: for every valid JSON text, parse(format(text)) and
\* parse(minify(text)) are structurally equal to parse(text), key order and
\* number values preserved.
C19_FormatMinifyRoundTrip ==
  (call.fn \in {"formatJson", "minifyJson"} /\ JSONParse(call.text).ok) => RoundTrips

\* C19 for the texts all of whose numbers are finite
C19_RoundTripOfFiniteNumbers ==
  (call.fn \in {"formatJson", "minifyJson"} /\ JSONParse(call.text).ok
     /\ AllFinite(JSONParse(call.text).value)) => RoundTrips

\* the request of the call passes the proxy's validation: an absolute URL
\* of scheme https
ValidTarget ==
  /\ call.url.present
  /\ ParseUrl(call.url.text).ok
  /\ ParseUrl(call.url.text).protocol = <<"h", "t", "t", "p", "s", ":">>

\* the response is {error: text} and nothing else
ErrorBody(ret) == DOMAIN ret.body = {"error"}

\* the upstream answered 2xx and delivered its body within the timeout
Delivered(up) ==
  /\ up.kind = "answers"
  /\ up.status \in 200..299
  /\ up.headersMs + up.bodyMs < 10000
  /\ ~up.bodyFails

\* C15: a request whose url is missing, is no absolute URL or has a scheme
\* other than https gets status 400 with a body {error: text}, and no
\* upstream fetch is issued.
C15_ProxyValidation ==
  (call.fn = "GET" /\ ~ValidTarget) =>
    /\ call.ret.status = 400
    /\ ErrorBody(call.ret)
    /\ ~call.ret.fetched

\* an absolute URL of another scheme was refused
C15_Witness ==
  /\ call.fn = "GET"
  /\ ParseUrl(call.url.text).ok
  /\ ~ValidTarget
  /\ call.ret.status = 400

C17_ProxyUpstreamFailure ==
  (call.fn = "GET" /\ ValidTarget) =>
    LET up == call.upstream
        late == up.kind = "answers" /\ up.headersMs > 10000
        refused == up.kind = "answers" /\ up.headersMs < 10000 /\ up.status \notin 200..299
        bodyLost == /\ up.kind = "answers" /\ up.headersMs < 10000 /\ up.status \in 200..299
                    /\ (up.bodyFails \/ up.headersMs + up.bodyMs > 10000)
    IN /\ (up.kind = "throws" \/ late \/ bodyLost)
            => call.ret.status = 502 /\ ErrorBody(call.ret)
       /\ refused
            => /\ call.ret.status = 502
               /\ call.ret.body = [error |-> "Upstream error: " \o ToString(up.status)]
               /\ ~call.ret.read

\* a non-2xx answer was turned into a 502
C17_Witness ==
  /\ call.fn = "GET"
  /\ ValidTarget
  /\ call.upstream.kind = "answers"
  /\ call.upstream.headersMs < 10000
  /\ call.upstream.status = 404
  /\ call.ret.status = 502
  /\ ~call.ret.read

\* the text the share token of the session's fragment decodes to, if the
\* fragment is j= followed by a token that decodes
SharedAtStart(hash) ==
  LET h == HashText(hash)
      decoded == decompressFromEncodedURIComponent(SubSeq(h, Len(HASH_PREFIX) + 1, Len(h)))
  IN IF StartsAt(h, 1, HASH_PREFIX) THEN decoded ELSE NoText

\* C11: at session start, when the fragment is j= followed by a token that
\* decodes to a text t, the empty text included, raw becomes t whatever the
\* persisted slot holds.
C11_ShareLinkPrecedence ==
  (last.op = "mount" /\ SharedAtStart(last.hash).present)
    => raw = SharedAtStart(last.hash).text

\* C13: at session start, when the fragment holds no share token or the
\* token does not decode, raw is restored to the text of the persisted slot,
\* whatever that text is, and no notification is shown.
C13_RestoreFromSlot ==
  (last.op = "mount" /\ ~SharedAtStart(last.hash).present /\ last.saved.present)
    => raw = last.saved.text /\ toast = ""

\* the response the proxy gave to the load that has just ended
ProxyResponse == GET(Param(last'.url), last'.world.upstream)

\* a load has just ended in failure: the fetch or r.json() threw, or the
\* proxy's response is not ok
LoadFailedStep ==
  /\ load' # load
  /\ last'.op \in {"loaded", "loadFailed"}
  /\ last'.world.kind = "route" => ~StatusOk(ProxyResponse.status)

\* C14: a remote load that fails (the proxy's response is not ok, or the
\* fetch or the decoding of the response as JSON throws) leaves raw as it
\* was before; only the toast is set.
C14_FailedLoadKeepsDocument ==
  [][LoadFailedStep =>
       /\ raw' = raw
       /\ UNCHANGED <<storage, parsed, matches, expanded, selected, viewMode, search, autoFormat>>]_vars

\* every load that does not fail writes the document the proxy served
C14_LoadedWritesDocument ==
  [][(load' # load /\ last'.op = "loaded") =>
       /\ last'.world.kind = "route"
       /\ StatusOk(ProxyResponse.status)
       /\ raw' = last'.world.upstream.body.text]_vars

\* a load of a target the proxy refuses has failed while the document is not
\* the placeholder, and the toast carries the proxy's error
C14_Witness ==
  /\ last.op = "loadFailed"
  /\ last.world.kind = "route"
  /\ raw = Text_Nested
  /\ toast = "Only https URLs are allowed"

\* a load has failed because the fetch or r.json() threw
C14_WitnessThrown ==
  /\ last.op = "loadFailed"
  /\ last.world.kind \in {"fetchThrows", "notJson"}
  /\ raw # Text_Placeholder

\* a step of doFormat or doMinify: every other step that leaves their name
\* in last clears the toast
FormatStep ==
  /\ last'.op \in {"doFormat", "doMinify"}
  /\ toast' # ""
  /\ <<last, toast>>' # <<last, toast>>

\* C20: on a text that does not parse, formatJson and minifyJson return the
\* failure safeJsonParse returns, and doFormat / doMinify leave raw as it
\* was and set only the toast.
C20_InvalidWritesNothing ==
  [][/\ ~parsed.ok =>
          /\ formatJson(raw) = safeJsonParse(raw)
          /\ minifyJson(raw) = safeJsonParse(raw)
          /\ ~formatJson(raw).ok
     /\ (~parsed.ok /\ FormatStep) =>
          /\ raw' = raw
          /\ toast' = InvalidToast(safeJsonParse(raw))
          /\ UNCHANGED <<storage, parsed, matches, expanded, selected, load, autoFormat>>]_vars

\* doFormat has run on a text that does not parse
C20_Witness ==
  /\ last.op = "doFormat"
  /\ raw = Text_TrailingComma
  /\ ~parsed.ok
  /\ toast = InvalidToast(safeJsonParse(raw))

\* C21: the derived state reflects the current raw text only: parsed and
\* matches are those of raw, and while raw does not parse the search result
\* is empty, the match list is not shown and the output panel renders no
\* tree, form or code view.
C21_InvalidDisablesViews ==
  /\ parsed = safeJsonParse(raw)
  /\ matches = PageMatches(parsed, search)
  /\ ~safeJsonParse(raw).ok =>
       /\ matches = <<>>
       /\ ~MatchListShown(parsed, search)
       /\ OutputView(parsed, viewMode) = "fix"
       /\ ~FormMounted(parsed, viewMode)

\* the text was made invalid while a search was typed and the form view
\* selected
C21_Witness ==
  /\ last.op = "setRaw"
  /\ raw = Text_Broken
  /\ search = Text_bob
  /\ viewMode = "form"

\* C22: after raw is replaced by a different document while the form view
\* is shown, the ExpandedSet is {"/"}: it holds no pointer of the document
\* before.
C22_ReseedOnNewDocument ==
  [][(mounted /\ raw' # raw /\ parsed'.ok /\ parsed' # parsed /\ viewMode' = "form")
       => expanded' = {rootPointer}]_vars

\* C23: in the form view a node is displayed open only if the pointer of
\* every ancestor, the root included, and its own pointer are in the
\* ExpandedSet.
C23_OpenOnlyUnderOpenAncestors ==
  FormMounted(parsed, viewMode) =>
    \A segs \in DisplayedOpen(ValueOrEmpty(parsed), expanded) :
      \A q \in Prefixes(segs) : pointerFromSegments(q) \in expanded

\* a container whose pointer is in the ExpandedSet is not displayed open,
\* its parent having been closed by toggle
C23_Witness ==
  /\ FormMounted(parsed, viewMode)
  /\ last.op = "toggle"
  /\ \E segs \in NodePaths(ValueOrEmpty(parsed)) :
       /\ Len(segs) = 2
       /\ isExpandable(NodeAt(ValueOrEmpty(parsed), segs))
       /\ pointerFromSegments(segs) \in expanded
       /\ pointerFromSegments(SubSeq(segs, 1, 1)) \notin expanded
       /\ segs \notin DisplayedOpen(ValueOrEmpty(parsed), expanded)

\* C29: toggle(path) changes the membership of no pointer other than
\* toPointer(path) and the root pointer: closing a node keeps the pointers
\* of its descendants in the ExpandedSet.
C29_ToggleChangesOnePointer ==
  [][\A segs \in SessionPaths :
       Toggle(segs) =>
         expanded' \ {pointerFromSegments(segs), <<"/">>}
           = expanded \ {pointerFromSegments(segs), <<"/">>}]_vars

\* a node was closed while the pointer of a node below it is in the set
C29_Witness ==
  /\ last.op = "toggle"
  /\ last.segs # <<>>
  /\ pointerFromSegments(last.segs) \notin expanded
  /\ \E segs \in NodePaths(ValueOrEmpty(parsed)) :
       /\ Len(segs) > Len(last.segs)
       /\ SubSeq(segs, 1, Len(last.segs)) = last.segs
       /\ pointerFromSegments(segs) \in expanded

\* C28: expandAll raises the capped warning only when at least one container
\* of the document is missing from the resulting ExpandedSet.
C28_CappedOnlyWhenTruncated ==
  (call.fn = "expandAll" /\ call.ret.capped)
    => \E segs \in ContainerPaths(call.root) :
         pointerFromSegments(segs) \notin call.ret.expanded

\* C26: two different sequences of keys and indices from the root never get
\* the same path string, whatever the keys hold: quotes, backslashes, dots,
\* brackets.
C26_MatchPathsUnambiguous ==
  call.fn = "matchPath" =>
    \A other \in MatchPaths : other # call.segs => matchPath(other) # call.ret

\* the path of a node under a key holding a backslash and then a key holding
\* a quote and brackets
C26_Witness ==
  /\ call.fn = "matchPath"
  /\ call.segs = <<KeySeg(<<"\\">>), KeySeg(<<"\"", "]", "[">>)>>
  /\ call.ret = <<"[", "\"", "\\", "\"", "]", "[", "\"", "\\", "\"", "]", "[", "\"", "]">>

\* C30: once the effects of the page have run, the persisted slot holds
\* exactly the current raw text, whatever set raw: typing, upload, URL load,
\* format, minify, auto-format, or the restore at session start, after
\* which the placeholder written by the first render is not left in the
\* slot.
C30_SlotHoldsRaw == mounted => storage = Item(raw)

\* the session started by restoring a document from the slot, and the slot
\* holds it
C30_Witness ==
  /\ last.op = "mount"
  /\ last.saved = Item(Text_Nested)
  /\ raw = Text_Nested
  /\ storage = Item(Text_Nested)

\* C27: when two loads are in flight at once and both succeed, then once
\* both have ended raw holds the text served to the load that was issued
\* last, in whatever order the responses arrive.
C27_LastIssuedWins ==
  [][(/\ Len(load) >= 2
      /\ load' = <<>>
      /\ last'.op = "loaded"
      /\ ~load[Len(load)].pending)
       => raw' = load[Len(load)].text]_vars
---------------------------------------------------------------------------
(* The hard cap of the search *)

\* the number of object keys and of string, number and boolean leaves of
\* root: what a full traversal compares with q
Testables(root) ==
  Cardinality({p \in NodePaths(root) : p # <<>> /\ ~p[Len(p)].num})
  + Cardinality({p \in NodePaths(root) : NodeAt(root, p).t \in {"str", "num", "bool"}})

\* C24: findMatches compares no object key and no leaf value with the query
\* once it has collected maxMatches matches
C24_NoTestAfterCap ==
  call.fn = "findMatches" => call.run.late = 0

\* a search of an array that reached its cap of at least one match and left
\* keys or leaves uncompared
C24_Witness ==
  /\ call.fn = "findMatches"
  /\ isArray(call.root)
  /\ call.maxMatches >= 1
  /\ Len(call.run.out) = call.maxMatches
  /\ call.run.tests < Testables(call.root)

---------------------------------------------------------------------------
(* The collapsing of keys *)

RECURSIVE RewriteOf(_, _, _)
\* res is root with, at every depth, each entry under a key of keys whose
\* value is an object or an array replaced by {preview, value}, value being
\* the rewrite of the original; every other entry rewritten in place; the
\* keys of every object listed as root lists them
RewriteOf(res, root, keys) ==
  IF isArray(root)
    THEN /\ isArray(res)
         /\ Len(res.items) = Len(root.items)
         /\ \A i \in DOMAIN root.items : RewriteOf(res.items[i], root.items[i], keys)
  ELSE IF root.t = "obj"
    THEN /\ res.t = "obj"
         /\ ObjectKeys(res) = ObjectKeys(root)
         /\ \A k \in Range(root.keys) :
              IF k \in keys /\ Prop(root, k).t \in {"obj", "arr"}
                THEN /\ Prop(res, k).t = "obj"
                     /\ Prop(res, k).keys = <<Text_preview, Text_value>>
                     /\ RewriteOf(Prop(Prop(res, k), Text_value), Prop(root, k), keys)
                ELSE RewriteOf(Prop(res, k), Prop(root, k), keys)
  ELSE res = root

\* some object of root has the own key "__proto__"
HasProtoKey(root) ==
  \E p \in NodePaths(root) : p # <<>> /\ ~p[Len(p)].num /\ p[Len(p)].s = Text_proto

\* C25: the result of collapseKeysEverywhere(root, keys) is root with every
\* object or array under a key of keys wrapped as {preview, value} at every
\* depth, and every other entry kept under its key at its position
C25_StructuralRewrite ==
  call.fn = "collapseKeysEverywhere" => RewriteOf(call.ret, call.root, call.keys)

\* C25, for documents without a "__proto__" key
C25_StructuralRewriteOfPlainKeys ==
  (call.fn = "collapseKeysEverywhere" /\ ~HasProtoKey(call.root))
    => RewriteOf(call.ret, call.root, call.keys)

\* a document whose "meta" entries were wrapped inside an array, inside an
\* object and inside a wrapped value
C25_WitnessWrapped ==
  /\ call.fn = "collapseKeysEverywhere"
  /\ call.root = MetaDoc
  /\ call.keys = {Text_meta}
  /\ LET m == Prop(call.ret, Text_meta)
     IN /\ m.keys = <<Text_preview, Text_value>>
        /\ Prop(m, Text_preview).s = Text_meta \o <<" ","(","2"," ","k","e","y","s",")">>
        /\ Prop(Prop(Prop(m, Text_value), Text_meta), Text_preview).s
             = Text_meta \o <<" ","(","0"," ","k","e","y","s",")">>


=============================================================================
